---- MODULE Spec2Model ----
(***************************************************************************)
(* A model of Zemanta/gracefulshutdown: the GracefulShutdown orchestrator  *)
(* (src/gracefulshutdown.go) and the AwsManager shutdown manager           *)
(* (src/unnamed/part_004, package awsmanager).                             *)
(*                                                                         *)
(* StartSpec the program sets the orchestrator up and calls Start; the     *)
(*           managers' Start succeeds or fails as the environment decides. *)
(* Spec      the shutdown episodes of an orchestrator whose managers       *)
(*           listen: ShutdownStart, the callbacks and ShutdownFinish       *)
(*           succeed or fail as the environment decides.                   *)
(* FairSpec  Spec with weak fairness on every thread of control.           *)
(* AwsSpec   the AwsManager once its Start has returned nil: the queue     *)
(*           loop and the HTTP handler receive messages and route them.    *)
(* PeerSpec  AwsSpec with a notice for another instance held by the queue  *)
(*           and that instance's HTTP handler, under weak fairness.        *)
(* HbSpec    one notice for the own instance: the episode it starts, the   *)
(*           ticker of ShutdownStart and the heartbeat goroutine.          *)
(* ReentrySpec  several notices for the own instance, each starting an     *)
(*           episode while the earlier ones may still run.                 *)
(* PollSpec  HbSpec with the queue loop and the HTTP handler receiving     *)
(*           further messages while the episode runs.                      *)
(* CloseSpec the episode of a manager that was started without a port.     *)
(* DeleteSpec  AwsSpec with the result of every DeleteMessage.             *)
(* AwsStartSpec  the orchestrator's Start calling AwsManager.Start, whose  *)
(*           steps succeed or fail as the environment decides.             *)
(* PostSpec  the manager forwards a notice; the peer answers 200 or 400.   *)
(* TwoSpec   the AwsManager among two managers, either of which starts a   *)
(*           shutdown.                                                     *)
(* HandlerSpec  the ErrorHandler called from several goroutines at once.   *)
(* LoopSpec  the queue loop, round after round, under fair scheduling.     *)
(* HopSpec   the manager and a peer forwarding notices to each other.      *)
(* WorkerSpec  the heartbeat goroutines over shutdown episodes that follow *)
(*           one another, under fair scheduling.                           *)
(***************************************************************************)
EXTENDS Integers, Sequences, FiniteSets, Bags, TLC

\* Bounds of the model.
MaxCallbacks == 2
MaxManagers == 2
MaxEpisodes == 1
MaxReports == 2
MaxMessages == 1
MaxNotices == 2
MaxTicks == 3
MaxPeriods == 1

\* The nil error, and the nil ErrorHandler.
NoError == [src |-> "nil", a |-> 0, b |-> 0]
NoHandler == "nil"
UserHandler == "handler"

VARIABLES
    callbacks,      \* gs.callbacks: the registered callbacks, in order
    managers,       \* gs.managers: the registered managers, in order
    errorHandler,   \* gs.errorHandler
    handled,        \* bag of the errors errorHandler.OnError was invoked with
    gsPc,           \* the program that owns gs: "setup", "starting", "returned"
    startIdx,       \* position of the loop of GracefulShutdown.Start
    startCalls,     \* startCalls[m]: number of calls of managers[m].Start
    startFailed,    \* the managers whose Start returned an error
    startResult,    \* what GracefulShutdown.Start returned
    episodes,       \* the calls of StartShutdown, one record each
    reports,        \* direct calls of ReportError: [nil |-> n, err |-> n]
    config,         \* awsManager.config
    lifecycleActionToken,   \* awsManager.lifecycleActionToken
    autoscalingGroupName,   \* awsManager.autoscalingGroupName
    handlers,       \* the rounds of listenSQS and the calls of ServeHTTP
    requested,      \* NumForwardRetries as given to NewAwsManager
    peer,           \* another instance that runs the manager
    tickers,        \* the tickers made by time.NewTicker, one record each
    ticker,         \* awsManager.ticker: an index of tickers, 0 for nil
    beaters,        \* the goroutines started by AwsManager.ShutdownStart
    completions,    \* the calls of api.CompleteLifecycleAction
    listener,       \* awsManager.listener and the server started on it
    awsStart        \* the call of AwsManager.Start: its position and result

gsVars == <<callbacks, managers, errorHandler, handled, gsPc, startIdx,
            startCalls, startFailed, startResult, episodes, reports>>

awsVars == <<config, lifecycleActionToken, autoscalingGroupName, handlers>>

fwdVars == <<requested>>

peerVars == <<peer>>

hbVars == <<tickers, ticker, beaters, completions>>

lsnVars == <<listener>>

startVars == <<awsStart>>

extVars == <<fwdVars, peerVars, hbVars, lsnVars, startVars>>

vars == <<gsVars, awsVars, extVars>>

----------------------------------------------------------------------------
\* Errors are told apart by where they come from.
Err(src, a, b) == [src |-> src, a |-> a, b |-> b]
StartError(m) == Err("Start", m, 0)
ShutdownStartError(e) == Err("ShutdownStart", e, 0)
ShutdownFinishError(e) == Err("ShutdownFinish", e, 0)
CallbackError(e, c) == Err("OnShutdown", e, c)
MyError == Err("my-error", 0, 0)

\* ShutdownManager.GetName of the m-th registered manager.
GetNameFirst(m) == <<"manager", 1>>

GetName(m) == <<"manager", m>>

\* GracefulShutdown.ReportError: the handler is invoked when err is not nil
\* and a handler is set. h is the bag of the handler's invocations so far.
ReportErrorNil(handler, err, h) ==
    IF handler /= NoHandler THEN h (+) SetToBag({err}) ELSE h

ReportError(handler, err, h) ==
    IF err /= NoError /\ handler /= NoHandler
    THEN h (+) SetToBag({err})
    ELSE h

\* awsManager.listener: nil until listenHTTP has bound the port (line 269);
\* http.Serve (line 280) serves until the listener is closed.
NoListener == [bound |-> FALSE, serving |-> FALSE, closes |-> 0]
OpenListener == [bound |-> TRUE, serving |-> TRUE, closes |-> 0]

\* AwsManager.Start was not called, and a call of it that has returned nil.
\* i counts the calls of net.Listen, sleeps holds the arguments of
\* backOffDuration the call slept for, metadata the resources it asked
\* GetMetadata for, given the region and the instance id of the
\* configuration NewAwsManager got.
NotStarted ==
    [pc |-> "idle", i |-> 0, registered |-> FALSE, polling |-> FALSE,
     result |-> NoError, sleeps |-> <<>>, metadata |-> <<>>,
     given |-> [Region |-> <<>>, InstanceId |-> ""]]
Started(queue) ==
    [pc |-> "returned", i |-> 0, registered |-> TRUE,
     polling |-> (queue /= ""), result |-> NoError, sleeps |-> <<>>,
     metadata |-> <<>>, given |-> [Region |-> <<>>, InstanceId |-> ""]]

\* No AwsManager was made: the zero values of its fields.
NoAwsManager ==
    /\ config = [LifecycleHookName |-> "", InstanceId |-> "", Port |-> 0,
                 SqsQueueName |-> "", NumForwardRetries |-> 0,
                 NumServeRetries |-> 0, Region |-> <<>>]
    /\ awsStart = NotStarted
    /\ lifecycleActionToken = ""
    /\ autoscalingGroupName = ""
    /\ handlers = <<>>
    /\ requested = 0
    /\ peer = [served |-> <<>>, starts |-> 0, deleted |-> FALSE]
    /\ tickers = <<>>
    /\ ticker = 0
    /\ beaters = <<>>
    /\ completions = <<>>
    /\ listener = NoListener

\* New(): no callbacks, no managers, no error handler.
Init ==
    /\ callbacks = <<>>
    /\ managers = <<>>
    /\ errorHandler = NoHandler
    /\ handled = EmptyBag
    /\ gsPc = "setup"
    /\ startIdx = 0
    /\ startCalls = <<>>
    /\ startFailed = {}
    /\ startResult = NoError
    /\ episodes = <<>>
    /\ reports = [nil |-> 0, err |-> 0]
    /\ NoAwsManager

\* AddShutdownManager, called by the program before Start.
AddShutdownManager ==
    /\ gsPc = "setup"
    /\ Len(managers) < MaxManagers
    /\ managers' = Append(managers, Len(managers) + 1)
    /\ startCalls' = Append(startCalls, 0)
    /\ UNCHANGED <<callbacks, errorHandler, handled, gsPc, startIdx,
                   startFailed, startResult, episodes, reports>>
    /\ UNCHANGED awsVars
    /\ UNCHANGED extVars

\* AddShutdownCallback, called by the program before Start.
AddShutdownCallback ==
    /\ gsPc = "setup"
    /\ Len(callbacks) < MaxCallbacks
    /\ callbacks' = Append(callbacks, Len(callbacks) + 1)
    /\ UNCHANGED <<managers, errorHandler, handled, gsPc, startIdx,
                   startCalls, startFailed, startResult, episodes, reports>>
    /\ UNCHANGED awsVars
    /\ UNCHANGED extVars

\* SetErrorHandler, called by the program before Start.
SetErrorHandler ==
    /\ gsPc = "setup"
    /\ errorHandler = NoHandler
    /\ errorHandler' = UserHandler
    /\ UNCHANGED <<callbacks, managers, handled, gsPc, startIdx, startCalls,
                   startFailed, startResult, episodes, reports>>
    /\ UNCHANGED awsVars
    /\ UNCHANGED extVars

\* The program calls GracefulShutdown.Start.
StartCall ==
    /\ gsPc = "setup"
    /\ gsPc' = "starting"
    /\ startIdx' = 1
    /\ UNCHANGED <<callbacks, managers, errorHandler, handled, startCalls,
                   startFailed, startResult, episodes, reports>>
    /\ UNCHANGED awsVars
    /\ UNCHANGED extVars

\* One round of the loop of GracefulShutdown.Start: manager.Start(gs) is
\* called and, as the manager decides, fails (Start returns the error) or
\* succeeds (the loop goes on); after the last manager Start returns nil.
StartStepNoReturn(ok) ==
    /\ gsPc = "starting"
    /\ IF startIdx > Len(managers)
       THEN /\ ok
            /\ gsPc' = "returned"
            /\ UNCHANGED <<startIdx, startCalls, startFailed, startResult>>
       ELSE /\ startCalls' = [startCalls EXCEPT ![startIdx] = @ + 1]
            /\ startIdx' = startIdx + 1
            /\ startResult' = IF ok THEN startResult ELSE StartError(startIdx)
            /\ startFailed' = IF ok THEN startFailed
                              ELSE startFailed \cup {startIdx}
            /\ UNCHANGED gsPc
    /\ UNCHANGED <<callbacks, managers, errorHandler, handled, episodes,
                   reports>>
    /\ UNCHANGED awsVars
    /\ UNCHANGED extVars

StartStep(ok) ==
    /\ gsPc = "starting"
    /\ IF startIdx > Len(managers)
       THEN /\ ok
            /\ gsPc' = "returned"
            /\ startResult' = NoError
            /\ UNCHANGED <<startIdx, startCalls, startFailed>>
       ELSE /\ startCalls' = [startCalls EXCEPT ![startIdx] = @ + 1]
            /\ IF ok
               THEN /\ startIdx' = startIdx + 1
                    /\ UNCHANGED <<gsPc, startResult, startFailed>>
               ELSE /\ gsPc' = "returned"
                    /\ startResult' = StartError(startIdx)
                    /\ startFailed' = startFailed \cup {startIdx}
                    /\ UNCHANGED startIdx
    /\ UNCHANGED <<callbacks, managers, errorHandler, handled, episodes,
                   reports>>
    /\ UNCHANGED awsVars
    /\ UNCHANGED extVars

\* The managers whose Start was called and returned nil: they listen for
\* shutdown requests.
Listening(m) ==
    /\ m \in 1..Len(managers)
    /\ startCalls[m] > 0
    /\ m \notin startFailed

\* A call of StartShutdown(sm) that has just begun.
NewEpisode(m) ==
    [sm |-> m, pc |-> "ShutdownStart", n |-> 0, gor |-> <<>>, wg |-> 0,
     ssCalls |-> 0, sfCalls |-> 0, ssErr |-> FALSE]

\* A listening manager calls gs.StartShutdown(sm) on a thread of its own.
Trigger(m) ==
    /\ Listening(m)
    /\ Len(episodes) < MaxEpisodes
    /\ episodes' = Append(episodes, NewEpisode(m))
    /\ UNCHANGED <<callbacks, managers, errorHandler, handled, gsPc,
                   startIdx, startCalls, startFailed, startResult, reports>>
    /\ UNCHANGED awsVars
    /\ UNCHANGED extVars

\* StartShutdown, line 274: gs.ReportError(sm.ShutdownStart()). The manager
\* decides whether ShutdownStart fails. The range loop over gs.callbacks
\* that follows reads the slice once, here.
EpShutdownStartAbort(e, ok) ==
    /\ e \in 1..Len(episodes)
    /\ episodes[e].pc = "ShutdownStart"
    /\ handled' = ReportError(errorHandler,
                              IF ok THEN NoError ELSE ShutdownStartError(e),
                              handled)
    /\ episodes' = [episodes EXCEPT ![e].pc = IF ok THEN "launch" ELSE "done",
                                    ![e].ssCalls = @ + 1,
                                    ![e].ssErr = ~ok,
                                    ![e].n = Len(callbacks)]
    /\ UNCHANGED <<callbacks, managers, errorHandler, gsPc, startIdx,
                   startCalls, startFailed, startResult, reports>>
    /\ UNCHANGED awsVars
    /\ UNCHANGED extVars

EpShutdownStart(e, ok) ==
    /\ e \in 1..Len(episodes)
    /\ episodes[e].pc = "ShutdownStart"
    /\ handled' = ReportError(errorHandler,
                              IF ok THEN NoError ELSE ShutdownStartError(e),
                              handled)
    /\ episodes' = [episodes EXCEPT ![e].pc = "launch",
                                    ![e].ssCalls = @ + 1,
                                    ![e].ssErr = ~ok,
                                    ![e].n = Len(callbacks)]
    /\ UNCHANGED <<callbacks, managers, errorHandler, gsPc, startIdx,
                   startCalls, startFailed, startResult, reports>>
    /\ UNCHANGED awsVars
    /\ UNCHANGED extVars

\* The callback the i-th goroutine of the loop invokes: the loop hands each
\* goroutine its own callback as an argument (line 283).
LaunchedCallbackCaptured(n, i) == n

LaunchedCallback(n, i) == i

\* StartShutdown, lines 277-284: one round of the loop, wg.Add(1) and the
\* go statement; the goroutine invokes OnShutdown(sm.GetName()). After the
\* last callback the thread goes on to wg.Wait().
EpLaunch(e) ==
    /\ e \in 1..Len(episodes)
    /\ episodes[e].pc = "launch"
    /\ LET ep == episodes[e]
           i == Len(ep.gor) + 1
       IN IF i > ep.n
          THEN episodes' = [episodes EXCEPT ![e].pc = "wait"]
          ELSE episodes' =
                 [episodes EXCEPT
                    ![e].wg = @ + 1,
                    ![e].gor = Append(@, [cb |-> LaunchedCallback(ep.n, i),
                                           arg |-> GetName(ep.sm),
                                           st |-> "running"])]
    /\ UNCHANGED <<callbacks, managers, errorHandler, handled, gsPc,
                   startIdx, startCalls, startFailed, startResult, reports>>
    /\ UNCHANGED awsVars
    /\ UNCHANGED extVars

\* The goroutine of lines 279-283: OnShutdown returns, nil or an error as
\* the callback decides, the result goes to ReportError and the deferred
\* wg.Done() runs.
CallbackReturnNoDone(e, g, ok) ==
    /\ e \in 1..Len(episodes)
    /\ g \in 1..Len(episodes[e].gor)
    /\ episodes[e].gor[g].st = "running"
    /\ handled' = ReportError(errorHandler,
                              IF ok THEN NoError
                              ELSE CallbackError(e, episodes[e].gor[g].cb),
                              handled)
    /\ episodes' = [episodes EXCEPT
                      ![e].wg = IF ok THEN @ - 1 ELSE @,
                      ![e].gor[g].st = IF ok THEN "returned" ELSE "failed"]
    /\ UNCHANGED <<callbacks, managers, errorHandler, gsPc, startIdx,
                   startCalls, startFailed, startResult, reports>>
    /\ UNCHANGED awsVars
    /\ UNCHANGED extVars

CallbackReturnFirstError(e, g, ok) ==
    /\ e \in 1..Len(episodes)
    /\ g \in 1..Len(episodes[e].gor)
    /\ episodes[e].gor[g].st = "running"
    /\ handled' = ReportError(errorHandler,
                              IF ok \/ \E o \in 1..Len(episodes[e].gor) :
                                         episodes[e].gor[o].st = "failed"
                              THEN NoError
                              ELSE CallbackError(e, episodes[e].gor[g].cb),
                              handled)
    /\ episodes' = [episodes EXCEPT
                      ![e].wg = @ - 1,
                      ![e].gor[g].st = IF ok THEN "returned" ELSE "failed"]
    /\ UNCHANGED <<callbacks, managers, errorHandler, gsPc, startIdx,
                   startCalls, startFailed, startResult, reports>>
    /\ UNCHANGED awsVars
    /\ UNCHANGED extVars

CallbackReturn(e, g, ok) ==
    /\ e \in 1..Len(episodes)
    /\ g \in 1..Len(episodes[e].gor)
    /\ episodes[e].gor[g].st = "running"
    /\ handled' = ReportError(errorHandler,
                              IF ok THEN NoError
                              ELSE CallbackError(e, episodes[e].gor[g].cb),
                              handled)
    /\ episodes' = [episodes EXCEPT
                      ![e].wg = @ - 1,
                      ![e].gor[g].st = IF ok THEN "returned" ELSE "failed"]
    /\ UNCHANGED <<callbacks, managers, errorHandler, gsPc, startIdx,
                   startCalls, startFailed, startResult, reports>>
    /\ UNCHANGED awsVars
    /\ UNCHANGED extVars

\* wg.Wait() returns once the counter is zero.
WaitDoneEarly(ep) == ep.wg <= 1

WaitDone(ep) == ep.wg = 0

\* StartShutdown, lines 286-288: wg.Wait() returns, then
\* gs.ReportError(sm.ShutdownFinish()); StartShutdown returns.
EpShutdownFinish(e, ok) ==
    /\ e \in 1..Len(episodes)
    /\ episodes[e].pc = "wait"
    /\ WaitDone(episodes[e])
    /\ handled' = ReportError(errorHandler,
                              IF ok THEN NoError ELSE ShutdownFinishError(e),
                              handled)
    /\ episodes' = [episodes EXCEPT ![e].pc = "done",
                                    ![e].sfCalls = @ + 1]
    /\ UNCHANGED <<callbacks, managers, errorHandler, gsPc, startIdx,
                   startCalls, startFailed, startResult, reports>>
    /\ UNCHANGED awsVars
    /\ UNCHANGED extVars

\* A listening manager reports an error, or nil, with gs.ReportError.
DirectReportError(m, err) ==
    /\ Listening(m)
    /\ reports.nil + reports.err < MaxReports
    /\ handled' = ReportError(errorHandler, err, handled)
    /\ reports' = IF err = NoError
                  THEN [reports EXCEPT !.nil = @ + 1]
                  ELSE [reports EXCEPT !.err = @ + 1]
    /\ UNCHANGED <<callbacks, managers, errorHandler, gsPc, startIdx,
                   startCalls, startFailed, startResult, episodes>>
    /\ UNCHANGED awsVars
    /\ UNCHANGED extVars

\* The program registers its managers, callbacks and error handler, calls
\* Start, and the managers report errors while they listen.
StartNext ==
    \/ AddShutdownManager
    \/ AddShutdownCallback
    \/ SetErrorHandler
    \/ StartCall
    \/ \E ok \in BOOLEAN : StartStep(ok)
    \/ \E m \in 1..MaxManagers, err \in {NoError, MyError} :
          DirectReportError(m, err)

StartSpec == Init /\ [][StartNext]_vars

\* The orchestrator once Start has returned nil: every registered manager
\* listens. The program registered up to MaxCallbacks callbacks, up to
\* MaxManagers managers, and an error handler or none.
InitListening ==
    /\ \E n \in 0..MaxCallbacks : callbacks = [c \in 1..n |-> c]
    /\ \E n \in 1..MaxManagers :
          /\ managers = [m \in 1..n |-> m]
          /\ startCalls = [m \in 1..n |-> 1]
          /\ startIdx = n + 1
    /\ errorHandler \in {NoHandler, UserHandler}
    /\ handled = EmptyBag
    /\ gsPc = "returned"
    /\ startFailed = {}
    /\ startResult = NoError
    /\ episodes = <<>>
    /\ reports = [nil |-> 0, err |-> 0]
    /\ NoAwsManager

\* The managers trigger shutdowns and the episodes run.
Next ==
    \/ \E m \in 1..MaxManagers : Trigger(m)
    \/ \E e \in 1..MaxEpisodes, ok \in BOOLEAN : EpShutdownStart(e, ok)
    \/ \E e \in 1..MaxEpisodes : EpLaunch(e)
    \/ \E e \in 1..MaxEpisodes, g \in 1..MaxCallbacks, ok \in BOOLEAN :
          CallbackReturn(e, g, ok)
    \/ \E e \in 1..MaxEpisodes, ok \in BOOLEAN : EpShutdownFinish(e, ok)

Spec == InitListening /\ [][Next]_vars

\* Every thread of control that can take a step eventually takes one: the
\* Go scheduler runs every runnable goroutine, and every callback returns.
Fairness ==
    /\ \A e \in 1..MaxEpisodes :
          /\ WF_vars(\E ok \in BOOLEAN : EpShutdownStart(e, ok))
          /\ WF_vars(EpLaunch(e))
          /\ WF_vars(\E ok \in BOOLEAN : EpShutdownFinish(e, ok))
          /\ \A g \in 1..MaxCallbacks :
                WF_vars(\E ok \in BOOLEAN : CallbackReturn(e, g, ok))

\* Which manager triggered an episode plays no part in how the episode
\* proceeds: progress is checked with one manager registered.
InitOneManager == InitListening /\ Len(managers) = 1

FairSpec == InitOneManager /\ [][Next]_vars /\ Fairness

----------------------------------------------------------------------------
\* package awsmanager: the AwsManager.

defaultForwardRetries == 10
defaultServeRetries == 3

MyHook == "my-lifecycle-hook"
OtherHook == "other-lifecycle-hook"
Terminating == "autoscaling:EC2_INSTANCE_TERMINATING"
Launching == "autoscaling:EC2_INSTANCE_LAUNCHING"
OwnInstance == "i-1db84ae3"
PeerInstance == "i-752c5f8a"
HttpPort == 8080
QueueName == "my-queue"
StatusOK == 200
StatusBadRequest == 400

\* The manager is the orchestrator's first registered manager.
AwsManagerId == 1

\* A message body. A JSON object gives each field of lifecycleHookMessage a
\* string, a value of another JSON type, or leaves it out; a body that is no
\* JSON is not valid.
Fields == {"LifecycleHookName", "LifecycleTransition", "EC2InstanceId",
           "LifecycleActionToken", "AutoScalingGroupName"}
Str(v) == [type |-> "string", val |-> v]
Num(v) == [type |-> "number", val |-> v]
Absent == [type |-> "absent", val |-> ""]

NotJson == [valid |-> FALSE, fields |-> [f \in Fields |-> Absent]]

EmptyDoc == [valid |-> TRUE, fields |-> [f \in Fields |-> Absent]]

Doc(hook, transition, instance, notice) ==
    [valid |-> TRUE,
     fields |-> [f \in Fields |->
        CASE f = "LifecycleHookName" -> Str(hook)
          [] f = "LifecycleTransition" -> Str(transition)
          [] f = "EC2InstanceId" -> Str(instance)
          [] f = "LifecycleActionToken" -> Str(<<"token", notice>>)
          [] f = "AutoScalingGroupName" -> Str(<<"group", notice>>)]]

\* A notice whose EC2InstanceId is a JSON number.
BadTypeDoc ==
    [Doc(MyHook, Terminating, OwnInstance, 1) EXCEPT
        !.fields["EC2InstanceId"] = Num("7")]

RawMessages ==
    {NotJson, EmptyDoc, BadTypeDoc}
    \cup {Doc(h, t, i, n) : h \in {MyHook, OtherHook},
                            t \in {Terminating, Launching},
                            i \in {OwnInstance, PeerInstance},
                            n \in {1, 2}}

\* json.NewDecoder(...).Decode(hookMessage), lines 301-306: an error when the
\* body is no JSON or gives a field a value that is no string; a field left
\* out keeps the empty string.
Decode(raw) ==
    IF ~raw.valid \/ \E f \in Fields : raw.fields[f].type = "number"
    THEN [ok |-> FALSE, msg |-> [f \in Fields |-> ""]]
    ELSE [ok |-> TRUE,
          msg |-> [f \in Fields |->
                     IF raw.fields[f].type = "string"
                     THEN raw.fields[f].val ELSE ""]]

\* AwsManagerConfig.clean, lines 177-181: 0 retries means the default, a
\* negative number means none.
CleanRetriesNoDefault(n) ==
    IF n < 0 THEN 0 ELSE n

CleanRetries(n) ==
    IF n = 0 THEN defaultForwardRetries ELSE IF n < 0 THEN 0 ELSE n

\* AwsManagerConfig.clean, lines 172-176: the same for the retries of the
\* listener.
CleanServeRetries(n) ==
    IF n = 0 THEN defaultServeRetries ELSE IF n < 0 THEN 0 ELSE n

\* The availability zone the instance metadata gives (a string is a
\* sequence of characters), and the region Start takes from it, line 213:
\* availabilityZone[:len(availabilityZone)-1].
Zone == <<"m", "e", "t", "a", "d", "a", "t", "a">>
RegionOfZone(zone) == SubSeq(zone, 1, Len(zone) - 1)

\* The resources Start asks GetMetadata for (lines 209 and 217), the
\* instance id the metadata gives, and a region a configuration gives.
ZoneResource == "placement/availability-zone"
InstanceIdResource == "instance-id"
MetadataInstanceId == "i-metadata"
GivenRegion == <<"e", "u">>

\* handleMessage, lines 301-330: what becomes of a message.
RouteNoInstanceCheck(cfg, raw) ==
    LET d == Decode(raw) IN
    IF ~d.ok THEN "reject"
    ELSE IF d.msg["LifecycleHookName"] /= cfg.LifecycleHookName THEN "reject"
    ELSE IF d.msg["LifecycleTransition"] /= Terminating THEN "reject"
    ELSE "accept"

RouteNoTransitionCheck(cfg, raw) ==
    LET d == Decode(raw) IN
    IF ~d.ok THEN "reject"
    ELSE IF d.msg["LifecycleHookName"] /= cfg.LifecycleHookName THEN "reject"
    ELSE IF d.msg["EC2InstanceId"] = cfg.InstanceId THEN "accept"
    ELSE IF cfg.Port /= 0 THEN "forward"
    ELSE "reject"

RouteForwardAlways(cfg, raw) ==
    LET d == Decode(raw) IN
    IF ~d.ok THEN "reject"
    ELSE IF d.msg["LifecycleHookName"] /= cfg.LifecycleHookName THEN "reject"
    ELSE IF d.msg["LifecycleTransition"] /= Terminating THEN "reject"
    ELSE IF d.msg["EC2InstanceId"] = cfg.InstanceId THEN "accept"
    ELSE "forward"

RouteForwardFirst(cfg, raw) ==
    LET d == Decode(raw) IN
    IF ~d.ok THEN "reject"
    ELSE IF d.msg["LifecycleHookName"] /= cfg.LifecycleHookName THEN "reject"
    ELSE IF d.msg["LifecycleTransition"] /= Terminating THEN "reject"
    ELSE IF cfg.Port /= 0 THEN "forward"
    ELSE IF d.msg["EC2InstanceId"] = cfg.InstanceId THEN "accept"
    ELSE "reject"

RouteInstanceFirst(cfg, raw) ==
    LET d == Decode(raw) IN
    IF ~d.ok THEN "reject"
    ELSE IF d.msg["EC2InstanceId"] = cfg.InstanceId THEN "accept"
    ELSE IF d.msg["LifecycleHookName"] /= cfg.LifecycleHookName THEN "reject"
    ELSE IF d.msg["LifecycleTransition"] /= Terminating THEN "reject"
    ELSE IF cfg.Port /= 0 THEN "forward"
    ELSE "reject"

Route(cfg, raw) ==
    LET d == Decode(raw) IN
    IF ~d.ok THEN "reject"
    ELSE IF d.msg["LifecycleHookName"] /= cfg.LifecycleHookName THEN "reject"
    ELSE IF d.msg["LifecycleTransition"] /= Terminating THEN "reject"
    ELSE IF d.msg["EC2InstanceId"] = cfg.InstanceId THEN "accept"
    ELSE IF cfg.Port /= 0 THEN "forward"
    ELSE "reject"

\* The errors of the manager's collaborators.
ReceiveError(h) == Err("ReceiveMessage", h, 0)
GetHostError(h) == Err("GetHost", h, 0)
PostError(h, i) == Err("http.Post", h, i)
DeleteError(h) == Err("DeleteMessage", h, 0)

\* awsApi.GetHost: the address of an instance.
HostOf(instance) == <<"host", instance>>

\* A round of listenSQS or a call of ServeHTTP that has its message.
NewHandler(src, raw, got) ==
    [src |-> src, raw |-> raw, got |-> got,
     pc |-> IF got THEN "handleMessage" ELSE "done",
     result |-> "none", starts |-> 0, wrote |-> <<>>, forwards |-> 0,
     lookups |-> <<>>, host |-> <<>>, i |-> 0, posts |-> <<>>,
     outcomes |-> <<>>, reported |-> <<>>, episode |-> 0,
     deletes |-> 0, deleted |-> "none",
     resp |-> IF src = "http" /\ ~got THEN StatusBadRequest ELSE 0]

\* handleMessage has returned result: listenSQS deletes the message when it
\* is true (lines 294-296), ServeHTTP writes the status (lines 258-262).
ReturnedNeverDelete(rec, result) ==
    [rec EXCEPT !.pc = "done",
                !.result = IF result THEN "true" ELSE "false",
                !.resp = IF rec.src = "http"
                         THEN (IF result THEN StatusOK ELSE StatusBadRequest)
                         ELSE @]

Returned(rec, result) ==
    [rec EXCEPT !.pc = "done",
                !.result = IF result THEN "true" ELSE "false",
                !.deletes = IF rec.src = "sqs" /\ result THEN @ + 1 ELSE @,
                !.resp = IF rec.src = "http"
                         THEN (IF result THEN StatusOK ELSE StatusBadRequest)
                         ELSE @]

\* The manager once NewAwsManager(config) and Start have returned nil: it is
\* the only manager of the orchestrator and its own shutdown callback is
\* registered (line 234); with a port it listens and serves (lines 228-232);
\* the program set an error handler or none.
AwsInit ==
    /\ callbacks = <<1>>
    /\ managers = <<AwsManagerId>>
    /\ startCalls = <<1>>
    /\ startIdx = 2
    /\ startFailed = {}
    /\ startResult = NoError
    /\ gsPc = "returned"
    /\ errorHandler \in {NoHandler, UserHandler}
    /\ handled = EmptyBag
    /\ episodes = <<>>
    /\ reports = [nil |-> 0, err |-> 0]
    /\ \E port \in {0, HttpPort}, retries \in {-1, 0, 1} :
          /\ requested = retries
          /\ listener = IF port = 0 THEN NoListener ELSE OpenListener
          /\ config = [LifecycleHookName |-> MyHook,
                       InstanceId |-> OwnInstance,
                       Port |-> port,
                       SqsQueueName |-> QueueName,
                       NumForwardRetries |-> CleanRetries(retries),
                       NumServeRetries |-> CleanServeRetries(0),
                       Region |-> RegionOfZone(Zone)]
    /\ awsStart = Started(QueueName)
    /\ lifecycleActionToken = ""
    /\ autoscalingGroupName = ""
    /\ handlers = <<>>
    /\ peer = [served |-> <<>>, starts |-> 0, deleted |-> FALSE]
    /\ tickers = <<>>
    /\ ticker = 0
    /\ beaters = <<>>
    /\ completions = <<>>

\* listenSQS, lines 287-292: ReceiveMessage returns a message and no error.
\* The loop handles one message at a time.
SqsReceiveAfterShutdown(raw) ==
    /\ config.SqsQueueName /= ""
    /\ \A h \in 1..Len(handlers) :
          handlers[h].src = "sqs" => handlers[h].pc = "done"
    /\ \A e \in 1..Len(episodes) : episodes[e].pc = "done"
    /\ handlers' = Append(handlers, NewHandler("sqs", raw, TRUE))
    /\ handled' = ReportError(errorHandler, NoError, handled)
    /\ UNCHANGED <<callbacks, managers, errorHandler, gsPc, startIdx,
                   startCalls, startFailed, startResult, episodes, reports>>
    /\ UNCHANGED <<config, lifecycleActionToken, autoscalingGroupName>>
    /\ UNCHANGED extVars

SqsReceiveConcurrent(raw) ==
    /\ config.SqsQueueName /= ""
    /\ handlers' = Append(handlers, NewHandler("sqs", raw, TRUE))
    /\ handled' = ReportError(errorHandler, NoError, handled)
    /\ UNCHANGED <<callbacks, managers, errorHandler, gsPc, startIdx,
                   startCalls, startFailed, startResult, episodes, reports>>
    /\ UNCHANGED <<config, lifecycleActionToken, autoscalingGroupName>>
    /\ UNCHANGED extVars

SqsReceiveUntilEmpty(raw) ==
    /\ config.SqsQueueName /= ""
    /\ \A h \in 1..Len(handlers) :
          handlers[h].src = "sqs" => handlers[h].pc = "done"
    /\ \A h \in 1..Len(handlers) : handlers[h].got
    /\ handlers' = Append(handlers, NewHandler("sqs", raw, TRUE))
    /\ handled' = ReportError(errorHandler, NoError, handled)
    /\ UNCHANGED <<callbacks, managers, errorHandler, gsPc, startIdx,
                   startCalls, startFailed, startResult, episodes, reports>>
    /\ UNCHANGED <<config, lifecycleActionToken, autoscalingGroupName>>
    /\ UNCHANGED extVars

SqsReceive(raw) ==
    /\ config.SqsQueueName /= ""
    /\ \A h \in 1..Len(handlers) :
          handlers[h].src = "sqs" => handlers[h].pc = "done"
    /\ handlers' = Append(handlers, NewHandler("sqs", raw, TRUE))
    /\ handled' = ReportError(errorHandler, NoError, handled)
    /\ UNCHANGED <<callbacks, managers, errorHandler, gsPc, startIdx,
                   startCalls, startFailed, startResult, episodes, reports>>
    /\ UNCHANGED <<config, lifecycleActionToken, autoscalingGroupName>>
    /\ UNCHANGED extVars

\* listenSQS, lines 287-292: ReceiveMessage returns no message, with an error
\* or without; the error is reported and the loop goes on.
SqsReceiveNone(ok) ==
    /\ config.SqsQueueName /= ""
    /\ \A h \in 1..Len(handlers) :
          handlers[h].src = "sqs" => handlers[h].pc = "done"
    /\ handlers' = Append(handlers, NewHandler("sqs", NotJson, FALSE))
    /\ handled' = ReportError(errorHandler,
                              IF ok THEN NoError
                              ELSE ReceiveError(Len(handlers) + 1),
                              handled)
    /\ UNCHANGED <<callbacks, managers, errorHandler, gsPc, startIdx,
                   startCalls, startFailed, startResult, episodes, reports>>
    /\ UNCHANGED <<config, lifecycleActionToken, autoscalingGroupName>>
    /\ UNCHANGED extVars

\* ServeHTTP, lines 251-257: a request arrives, through the manager's
\* listener or because the program calls the handler itself; the body is
\* read (answering 400 when that fails).
HttpRequest(raw, readOk) ==
    /\ handlers' = Append(handlers, NewHandler("http", raw, readOk))
    /\ UNCHANGED gsVars
    /\ UNCHANGED <<config, lifecycleActionToken, autoscalingGroupName>>
    /\ UNCHANGED extVars

\* handleMessage, lines 301-319 and 324-325: the message is rejected; or it
\* is the manager's own and its token is stored; or forwardMessage is called.
HandleMessage(h) ==
    /\ h \in 1..Len(handlers)
    /\ handlers[h].pc = "handleMessage"
    /\ LET rec == handlers[h]
           msg == Decode(rec.raw).msg
           route == Route(config, rec.raw)
       IN CASE route = "reject" ->
                 /\ handlers' = [handlers EXCEPT ![h] = Returned(rec, FALSE)]
                 /\ UNCHANGED lifecycleActionToken
            [] route = "accept" ->
                 /\ lifecycleActionToken' = msg["LifecycleActionToken"]
                 /\ handlers' =
                      [handlers EXCEPT
                         ![h].pc = "storeGroup",
                         ![h].wrote = Append(@, lifecycleActionToken')]
            [] route = "forward" ->
                 /\ handlers' = [handlers EXCEPT ![h].pc = "GetHost",
                                                 ![h].forwards = @ + 1]
                 /\ UNCHANGED lifecycleActionToken
    /\ UNCHANGED gsVars
    /\ UNCHANGED <<config, autoscalingGroupName>>
    /\ UNCHANGED extVars

\* handleMessage, lines 320-323: the group name is stored, StartShutdown is
\* started with the manager on a goroutine of its own, and handleMessage
\* returns true. The two stores are not synchronised with those of another
\* call of handleMessage, so they are steps of their own.
HandleAccepted(h) ==
    /\ h \in 1..Len(handlers)
    /\ handlers[h].pc = "storeGroup"
    /\ LET rec == handlers[h]
           msg == Decode(rec.raw).msg
       IN /\ autoscalingGroupName' = msg["AutoScalingGroupName"]
          /\ episodes' = Append(episodes, NewEpisode(AwsManagerId))
          /\ handlers' =
               [handlers EXCEPT ![h] =
                  Returned([rec EXCEPT
                              !.starts = @ + 1,
                              !.episode = Len(episodes) + 1,
                              !.wrote = Append(@, autoscalingGroupName')],
                           TRUE)]
    /\ UNCHANGED <<callbacks, managers, errorHandler, handled, gsPc,
                   startIdx, startCalls, startFailed, startResult, reports>>
    /\ UNCHANGED <<config, lifecycleActionToken>>
    /\ UNCHANGED extVars

\* forwardMessage, lines 334-337: the host of the message's instance is
\* looked up; when that fails forwardMessage returns the error, which
\* handleMessage reports (lines 325-328) before it returns true.
ForwardGetHostPostAnyway(h, ok) ==
    /\ h \in 1..Len(handlers)
    /\ handlers[h].pc = "GetHost"
    /\ LET rec == handlers[h]
           instance == Decode(rec.raw).msg["EC2InstanceId"]
           looked == [rec EXCEPT !.lookups = Append(@, instance)]
       IN IF ok
          THEN /\ handlers' = [handlers EXCEPT ![h] =
                                 [looked EXCEPT !.pc = "Post",
                                                !.host = HostOf(instance),
                                                !.i = 0]]
               /\ UNCHANGED handled
          ELSE /\ handlers' =
                    [handlers EXCEPT ![h] =
                       [looked EXCEPT
                          !.pc = "Post",
                          !.i = 0,
                          !.reported = Append(@, GetHostError(h))]]
               /\ handled' = ReportError(errorHandler, GetHostError(h),
                                         handled)
    /\ UNCHANGED <<callbacks, managers, errorHandler, gsPc, startIdx,
                   startCalls, startFailed, startResult, episodes, reports>>
    /\ UNCHANGED <<config, lifecycleActionToken, autoscalingGroupName>>
    /\ UNCHANGED extVars

ForwardGetHostRefuse(h, ok) ==
    /\ h \in 1..Len(handlers)
    /\ handlers[h].pc = "GetHost"
    /\ LET rec == handlers[h]
           instance == Decode(rec.raw).msg["EC2InstanceId"]
           looked == [rec EXCEPT !.lookups = Append(@, instance)]
       IN IF ok
          THEN /\ handlers' = [handlers EXCEPT ![h] =
                                 [looked EXCEPT !.pc = "Post",
                                                !.host = HostOf(instance),
                                                !.i = 0]]
               /\ UNCHANGED handled
          ELSE /\ handlers' =
                    [handlers EXCEPT ![h] =
                       Returned([looked EXCEPT
                                   !.reported = Append(@, GetHostError(h))],
                                FALSE)]
               /\ handled' = ReportError(errorHandler, GetHostError(h),
                                         handled)
    /\ UNCHANGED <<callbacks, managers, errorHandler, gsPc, startIdx,
                   startCalls, startFailed, startResult, episodes, reports>>
    /\ UNCHANGED <<config, lifecycleActionToken, autoscalingGroupName>>
    /\ UNCHANGED extVars

ForwardGetHost(h, ok) ==
    /\ h \in 1..Len(handlers)
    /\ handlers[h].pc = "GetHost"
    /\ LET rec == handlers[h]
           instance == Decode(rec.raw).msg["EC2InstanceId"]
           looked == [rec EXCEPT !.lookups = Append(@, instance)]
       IN IF ok
          THEN /\ handlers' = [handlers EXCEPT ![h] =
                                 [looked EXCEPT !.pc = "Post",
                                                !.host = HostOf(instance),
                                                !.i = 0]]
               /\ UNCHANGED handled
          ELSE /\ handlers' =
                    [handlers EXCEPT ![h] =
                       Returned([looked EXCEPT
                                   !.reported = Append(@, GetHostError(h))],
                                TRUE)]
               /\ handled' = ReportError(errorHandler, GetHostError(h),
                                         handled)
    /\ UNCHANGED <<callbacks, managers, errorHandler, gsPc, startIdx,
                   startCalls, startFailed, startResult, episodes, reports>>
    /\ UNCHANGED <<config, lifecycleActionToken, autoscalingGroupName>>
    /\ UNCHANGED extVars

\* forwardMessage, lines 339-347: one round of the loop: the message is
\* posted to the host; on success the loop ends, on failure the round sleeps
\* and the loop goes on until NumForwardRetries+1 rounds were made. Then
\* handleMessage reports the last error, if any, and returns true.
ForwardPostReportEach(h, ok) ==
    /\ h \in 1..Len(handlers)
    /\ handlers[h].pc = "Post"
    /\ LET rec == handlers[h]
           posted == [rec EXCEPT
                        !.posts = Append(@, [host |-> rec.host,
                                             port |-> config.Port,
                                             body |-> rec.raw]),
                        !.outcomes = Append(@, ok),
                        !.reported = IF ok THEN @
                                     ELSE Append(@, PostError(h, rec.i)),
                        !.i = @ + 1]
       IN /\ handlers' =
               [handlers EXCEPT ![h] =
                  IF ok \/ rec.i + 1 >= config.NumForwardRetries + 1
                  THEN Returned(posted, TRUE) ELSE posted]
          /\ handled' = ReportError(errorHandler,
                                    IF ok THEN NoError
                                    ELSE PostError(h, rec.i),
                                    handled)
    /\ UNCHANGED <<callbacks, managers, errorHandler, gsPc, startIdx,
                   startCalls, startFailed, startResult, episodes, reports>>
    /\ UNCHANGED <<config, lifecycleActionToken, autoscalingGroupName>>
    /\ UNCHANGED extVars

ForwardPost(h, ok) ==
    /\ h \in 1..Len(handlers)
    /\ handlers[h].pc = "Post"
    /\ LET rec == handlers[h]
           posted == [rec EXCEPT
                        !.posts = Append(@, [host |-> rec.host,
                                             port |-> config.Port,
                                             body |-> rec.raw]),
                        !.outcomes = Append(@, ok),
                        !.i = @ + 1]
       IN IF ok
          THEN /\ handlers' = [handlers EXCEPT ![h] = Returned(posted, TRUE)]
               /\ UNCHANGED handled
          ELSE IF rec.i + 1 < config.NumForwardRetries + 1
          THEN /\ handlers' = [handlers EXCEPT ![h] = posted]
               /\ UNCHANGED handled
          ELSE /\ handlers' =
                    [handlers EXCEPT ![h] =
                       Returned([posted EXCEPT
                                   !.reported =
                                      Append(@, PostError(h, rec.i))],
                                TRUE)]
               /\ handled' = ReportError(errorHandler, PostError(h, rec.i),
                                         handled)
    /\ UNCHANGED <<callbacks, managers, errorHandler, gsPc, startIdx,
                   startCalls, startFailed, startResult, episodes, reports>>
    /\ UNCHANGED <<config, lifecycleActionToken, autoscalingGroupName>>
    /\ UNCHANGED extVars

AwsNext ==
    \/ \E raw \in RawMessages :
          Len(handlers) < MaxMessages /\ SqsReceive(raw)
    \/ \E ok \in BOOLEAN :
          Len(handlers) < MaxMessages /\ SqsReceiveNone(ok)
    \/ \E raw \in RawMessages, readOk \in BOOLEAN :
          Len(handlers) < MaxMessages /\ HttpRequest(raw, readOk)
    \/ \E h \in 1..MaxMessages : HandleMessage(h)
    \/ \E h \in 1..MaxMessages : HandleAccepted(h)
    \/ \E h \in 1..MaxMessages, ok \in BOOLEAN : ForwardGetHost(h, ok)
    \/ \E h \in 1..MaxMessages, ok \in BOOLEAN : ForwardPost(h, ok)

AwsSpec == AwsInit /\ [][AwsNext]_vars

\* listenSQS, line 295: api.DeleteMessage(message) returns, nil or an error
\* as the queue decides; the statement drops what it returns and the loop
\* goes to its next round.
SqsDeleteReturn(h, ok) ==
    /\ h \in 1..Len(handlers)
    /\ handlers[h].deletes > 0
    /\ handlers[h].deleted = "none"
    /\ handlers' = [handlers EXCEPT
                       ![h].deleted = IF ok THEN "nil" ELSE "error"]
    /\ UNCHANGED gsVars
    /\ UNCHANGED <<config, lifecycleActionToken, autoscalingGroupName>>
    /\ UNCHANGED extVars

\* A call of DeleteMessage has not returned.
DeletePending ==
    \E h \in 1..Len(handlers) :
       handlers[h].deletes > 0 /\ handlers[h].deleted = "none"

\* The queue loop of the manager, with the results of its deletes.
DeleteNext ==
    \/ \E raw \in RawMessages :
          /\ Len(handlers) < MaxMessages
          /\ ~DeletePending
          /\ SqsReceive(raw)
    \/ \E ok \in BOOLEAN :
          /\ Len(handlers) < MaxMessages
          /\ ~DeletePending
          /\ SqsReceiveNone(ok)
    \/ \E h \in 1..MaxMessages : HandleMessage(h)
    \/ \E h \in 1..MaxMessages : HandleAccepted(h)
    \/ \E h \in 1..MaxMessages, ok \in BOOLEAN : ForwardGetHost(h, ok)
    \/ \E h \in 1..MaxMessages, ok \in BOOLEAN : ForwardPost(h, ok)
    \/ \E h \in 1..MaxMessages, ok \in BOOLEAN : SqsDeleteReturn(h, ok)

DeleteSpec == AwsInit /\ [][DeleteNext]_vars

----------------------------------------------------------------------------
\* AwsManager.Start, called by the loop of GracefulShutdown.Start.

\* The errors of what Start calls: GetMetadata for the zone (1) and for the
\* instance id (2), api.Init, and the i-th net.Listen.
MetadataError(res) == Err("GetMetadata", res, 0)
InitError == Err("Init", 0, 0)
ListenError(i) == Err("net.Listen", i, 0)

\* The program made the manager with NewAwsManager(config), registered it
\* as the orchestrator's manager, registered callbacks of its own or none,
\* and has not called Start. The configuration gives a region, an instance
\* id, a port and a queue name, or leaves them out.
AwsStartInit ==
    /\ callbacks \in {<<>>, <<1>>}
    /\ managers = <<AwsManagerId>>
    /\ errorHandler \in {NoHandler, UserHandler}
    /\ handled = EmptyBag
    /\ gsPc = "setup"
    /\ startIdx = 0
    /\ startCalls = <<0>>
    /\ startFailed = {}
    /\ startResult = NoError
    /\ episodes = <<>>
    /\ reports = [nil |-> 0, err |-> 0]
    /\ \E port \in {0, HttpPort}, queue \in {"", QueueName},
          instance \in {"", OwnInstance},
          region \in {<<>>, GivenRegion}, serve \in {-1, 0} :
          /\ config = [LifecycleHookName |-> MyHook,
                       InstanceId |-> instance,
                       Port |-> port,
                       SqsQueueName |-> queue,
                       NumForwardRetries |-> CleanRetries(0),
                       NumServeRetries |-> CleanServeRetries(serve),
                       Region |-> region]
          /\ awsStart = [NotStarted EXCEPT
                           !.given = [Region |-> region,
                                      InstanceId |-> instance]]
    /\ requested = 0
    /\ lifecycleActionToken = ""
    /\ autoscalingGroupName = ""
    /\ handlers = <<>>
    /\ peer = [served |-> <<>>, starts |-> 0, deleted |-> FALSE]
    /\ tickers = <<>>
    /\ ticker = 0
    /\ beaters = <<>>
    /\ completions = <<>>
    /\ listener = NoListener

\* Start returns err to the loop of GracefulShutdown.Start (lines 229-237
\* of gracefulshutdown.go): the loop goes on after nil and returns an error
\* at once. rec is what the call has done.
AwsStartReturns(rec, err) ==
    /\ awsStart' = [rec EXCEPT !.pc = "returned", !.result = err]
    /\ IF err = NoError
       THEN /\ startIdx' = startIdx + 1
            /\ UNCHANGED <<gsPc, startResult, startFailed>>
       ELSE /\ gsPc' = "returned"
            /\ startResult' = err
            /\ startFailed' = startFailed \cup {startIdx}
            /\ UNCHANGED startIdx

\* The loop of GracefulShutdown.Start calls the manager's Start (line 231).
AwsStartCall ==
    /\ gsPc = "starting"
    /\ startIdx = AwsManagerId
    /\ awsStart.pc = "idle"
    /\ awsStart' = [awsStart EXCEPT !.pc = "region"]
    /\ startCalls' = [startCalls EXCEPT ![startIdx] = @ + 1]
    /\ UNCHANGED <<callbacks, managers, errorHandler, handled, gsPc,
                   startIdx, startFailed, startResult, episodes, reports>>
    /\ UNCHANGED <<awsVars, fwdVars, peerVars, hbVars, lsnVars>>

\* Start, lines 208-214: a region left out is taken from the metadata; the
\* metadata gives a zone name, which is not empty.
AwsGetRegionAlways(ok) ==
    /\ awsStart.pc = "region"
    /\ LET asked == [awsStart EXCEPT !.metadata = Append(@, ZoneResource)]
       IN IF ok
          THEN /\ config' = [config EXCEPT !.Region = RegionOfZone(Zone)]
               /\ awsStart' = [asked EXCEPT !.pc = "instance"]
               /\ UNCHANGED <<gsPc, startIdx, startFailed, startResult>>
          ELSE /\ AwsStartReturns(asked, MetadataError(1))
               /\ UNCHANGED config
    /\ UNCHANGED <<callbacks, managers, errorHandler, handled, startCalls,
                   episodes, reports>>
    /\ UNCHANGED <<lifecycleActionToken, autoscalingGroupName, handlers>>
    /\ UNCHANGED <<fwdVars, peerVars, hbVars, lsnVars>>

AwsGetRegion(ok) ==
    /\ awsStart.pc = "region"
    /\ LET asked == [awsStart EXCEPT !.metadata = Append(@, ZoneResource)]
       IN IF config.Region /= <<>>
          THEN /\ ok
               /\ awsStart' = [awsStart EXCEPT !.pc = "instance"]
               /\ UNCHANGED <<config, gsPc, startIdx, startFailed,
                              startResult>>
          ELSE IF ok
          THEN /\ config' = [config EXCEPT !.Region = RegionOfZone(Zone)]
               /\ awsStart' = [asked EXCEPT !.pc = "instance"]
               /\ UNCHANGED <<gsPc, startIdx, startFailed, startResult>>
          ELSE /\ AwsStartReturns(asked, MetadataError(1))
               /\ UNCHANGED config
    /\ UNCHANGED <<callbacks, managers, errorHandler, handled, startCalls,
                   episodes, reports>>
    /\ UNCHANGED <<lifecycleActionToken, autoscalingGroupName, handlers>>
    /\ UNCHANGED <<fwdVars, peerVars, hbVars, lsnVars>>

\* Start, lines 216-222: an instance id left out is taken from the metadata.
AwsGetInstanceId(ok) ==
    /\ awsStart.pc = "instance"
    /\ LET asked == [awsStart EXCEPT
                       !.metadata = Append(@, InstanceIdResource)]
       IN IF config.InstanceId /= ""
          THEN /\ ok
               /\ awsStart' = [awsStart EXCEPT !.pc = "Init"]
               /\ UNCHANGED <<config, gsPc, startIdx, startFailed,
                              startResult>>
          ELSE IF ok
          THEN /\ config' = [config EXCEPT !.InstanceId = MetadataInstanceId]
               /\ awsStart' = [asked EXCEPT !.pc = "Init"]
               /\ UNCHANGED <<gsPc, startIdx, startFailed, startResult>>
          ELSE /\ AwsStartReturns(asked, MetadataError(2))
               /\ UNCHANGED config
    /\ UNCHANGED <<callbacks, managers, errorHandler, handled, startCalls,
                   episodes, reports>>
    /\ UNCHANGED <<lifecycleActionToken, autoscalingGroupName, handlers>>
    /\ UNCHANGED <<fwdVars, peerVars, hbVars, lsnVars>>

\* Start, lines 224-226, with awsApi.Init (aws_api.go 27-55): Init fails
\* only when a queue name is given and its URL cannot be found.
AwsApiInit(ok) ==
    /\ awsStart.pc = "Init"
    /\ IF ok
       THEN /\ awsStart' = [awsStart EXCEPT !.pc = "listenHTTP"]
            /\ UNCHANGED <<gsPc, startIdx, startFailed, startResult>>
       ELSE /\ config.SqsQueueName /= ""
            /\ AwsStartReturns(awsStart, InitError)
    /\ UNCHANGED <<callbacks, managers, errorHandler, handled, startCalls,
                   episodes, reports>>
    /\ UNCHANGED <<awsVars, fwdVars, peerVars, hbVars, lsnVars>>

\* Start, lines 228-232, with listenHTTP (265-283), one round of its loop:
\* with a port, net.Listen is tried up to NumServeRetries+1 times (its
\* result is stored in awsManager.listener every time); when one succeeds
\* http.Serve is started on the listener, when all fail Start returns the
\* last error; after every failed call the round sleeps for
\* backOffDuration(i) (line 274). Without a port nothing is done.
AwsListenHTTPOneShort(ok) ==
    /\ awsStart.pc = "listenHTTP"
    /\ IF config.Port = 0
       THEN /\ ok
            /\ awsStart' = [awsStart EXCEPT !.pc = "register"]
            /\ UNCHANGED <<listener, gsPc, startIdx, startFailed,
                           startResult>>
       ELSE IF ok
       THEN /\ listener' = OpenListener
            /\ awsStart' = [awsStart EXCEPT !.pc = "register",
                                            !.i = @ + 1]
            /\ UNCHANGED <<gsPc, startIdx, startFailed, startResult>>
       ELSE /\ listener' = NoListener
            /\ IF awsStart.i + 1 < config.NumServeRetries
               THEN /\ awsStart' = [awsStart EXCEPT
                                       !.i = @ + 1,
                                       !.sleeps = Append(@, awsStart.i)]
                    /\ UNCHANGED <<gsPc, startIdx, startFailed,
                                   startResult>>
               ELSE AwsStartReturns([awsStart EXCEPT
                                       !.i = @ + 1,
                                       !.sleeps = Append(@, awsStart.i)],
                                    ListenError(awsStart.i))
    /\ UNCHANGED <<callbacks, managers, errorHandler, handled, startCalls,
                   episodes, reports>>
    /\ UNCHANGED <<awsVars, fwdVars, peerVars, hbVars>>

AwsListenHTTPRegistered(ok) ==
    /\ awsStart.pc = "listenHTTP"
    /\ IF config.Port = 0
       THEN /\ ok
            /\ awsStart' = [awsStart EXCEPT !.pc = "register"]
            /\ UNCHANGED <<listener, gsPc, startIdx, startFailed,
                           startResult, callbacks>>
       ELSE IF ok
       THEN /\ listener' = OpenListener
            /\ awsStart' = [awsStart EXCEPT !.pc = "register",
                                            !.i = @ + 1,
                                            !.registered = TRUE]
            /\ UNCHANGED <<gsPc, startIdx, startFailed, startResult>>
            /\ callbacks' = IF awsStart.registered THEN callbacks
                            ELSE Append(callbacks, Len(callbacks) + 1)
       ELSE /\ listener' = NoListener
            /\ IF awsStart.i + 1 < config.NumServeRetries + 1
               THEN /\ awsStart' = [awsStart EXCEPT
                                       !.i = @ + 1,
                                       !.sleeps = Append(@, awsStart.i),
                                       !.registered = TRUE]
                    /\ UNCHANGED <<gsPc, startIdx, startFailed,
                                   startResult>>
               ELSE AwsStartReturns([awsStart EXCEPT
                                       !.i = @ + 1,
                                       !.sleeps = Append(@, awsStart.i),
                                       !.registered = TRUE],
                                    ListenError(awsStart.i))
            /\ callbacks' = IF awsStart.registered THEN callbacks
                            ELSE Append(callbacks, Len(callbacks) + 1)
    /\ UNCHANGED <<managers, errorHandler, handled, startCalls,
                   episodes, reports>>
    /\ UNCHANGED <<awsVars, fwdVars, peerVars, hbVars>>

AwsListenHTTP(ok) ==
    /\ awsStart.pc = "listenHTTP"
    /\ IF config.Port = 0
       THEN /\ ok
            /\ awsStart' = [awsStart EXCEPT !.pc = "register"]
            /\ UNCHANGED <<listener, gsPc, startIdx, startFailed,
                           startResult>>
       ELSE IF ok
       THEN /\ listener' = OpenListener
            /\ awsStart' = [awsStart EXCEPT !.pc = "register",
                                            !.i = @ + 1]
            /\ UNCHANGED <<gsPc, startIdx, startFailed, startResult>>
       ELSE /\ listener' = NoListener
            /\ IF awsStart.i + 1 < config.NumServeRetries + 1
               THEN /\ awsStart' = [awsStart EXCEPT
                                       !.i = @ + 1,
                                       !.sleeps = Append(@, awsStart.i)]
                    /\ UNCHANGED <<gsPc, startIdx, startFailed,
                                   startResult>>
               ELSE AwsStartReturns([awsStart EXCEPT
                                       !.i = @ + 1,
                                       !.sleeps = Append(@, awsStart.i)],
                                    ListenError(awsStart.i))
    /\ UNCHANGED <<callbacks, managers, errorHandler, handled, startCalls,
                   episodes, reports>>
    /\ UNCHANGED <<awsVars, fwdVars, peerVars, hbVars>>

\* Start, lines 234-240: the manager registers itself as a shutdown
\* callback, starts listenSQS when a queue name is given, and returns nil.
AwsRegister ==
    /\ awsStart.pc = "register"
    /\ callbacks' = Append(callbacks, Len(callbacks) + 1)
    /\ AwsStartReturns([awsStart EXCEPT
                           !.registered = TRUE,
                           !.polling = (config.SqsQueueName /= "")],
                       NoError)
    /\ UNCHANGED <<managers, errorHandler, handled, startCalls, episodes,
                   reports>>
    /\ UNCHANGED <<awsVars, fwdVars, peerVars, hbVars, lsnVars>>

\* The program calls GracefulShutdown.Start, which calls the manager's.
AwsStartNext ==
    \/ StartCall
    \/ AwsStartCall
    \/ \E ok \in BOOLEAN : AwsGetRegion(ok)
    \/ \E ok \in BOOLEAN : AwsGetInstanceId(ok)
    \/ \E ok \in BOOLEAN : AwsApiInit(ok)
    \/ \E ok \in BOOLEAN : AwsListenHTTP(ok)
    \/ AwsRegister
    \/ startIdx > Len(managers) /\ StartStep(TRUE)

AwsStartSpec == AwsStartInit /\ [][AwsStartNext]_vars

----------------------------------------------------------------------------
\* Peers: another instance runs the same manager against the same queue.
\* The queue holds one notice, addressed to that instance.

\* The peer's configuration: the manager's, with the peer's instance id.
PeerConfig == [config EXCEPT !.InstanceId = PeerInstance]

Notice == Doc(MyHook, Terminating, PeerInstance, 1)

\* The notice is gone from the queue once an instance has deleted it; while
\* the manager's queue loop handles it no other instance receives it.
NoticeDeleted ==
    peer.deleted \/ \E h \in 1..Len(handlers) : handlers[h].deletes > 0

NoticeInFlight ==
    \E h \in 1..Len(handlers) :
       handlers[h].src = "sqs" /\ handlers[h].pc /= "done"

NoticeVisible == ~NoticeDeleted /\ ~NoticeInFlight

\* The manager's listenSQS receives the notice from the queue.
QueueReceive ==
    /\ NoticeVisible
    /\ Len(handlers) < MaxMessages
    /\ SqsReceive(Notice)

\* The peer's listenSQS receives the notice (lines 287-296, with the peer's
\* configuration): handleMessage accepts it, StartShutdown is started and the
\* notice is deleted.
PeerSqsReceive ==
    /\ NoticeVisible
    /\ peer' = [peer EXCEPT
                  !.starts = IF Route(PeerConfig, Notice) = "accept"
                             THEN @ + 1 ELSE @,
                  !.deleted = Route(PeerConfig, Notice) /= "reject"]
    /\ UNCHANGED <<gsVars, awsVars, fwdVars, hbVars, lsnVars, startVars>>

\* The delivery attempts the peer's ServeHTTP has answered.
Served(h, attempt) ==
    \E k \in 1..Len(peer.served) :
       peer.served[k].h = h /\ peer.served[k].attempt = attempt

\* The peer's ServeHTTP (lines 250-263, with the peer's configuration)
\* answers the delivery attempt the manager's forwardMessage is making: a
\* notice handleMessage accepts starts StartShutdown at the peer.
PeerServeHTTP(h) ==
    /\ h \in 1..Len(handlers)
    /\ handlers[h].pc = "Post"
    /\ config.Port /= 0
    /\ ~Served(h, handlers[h].i + 1)
    /\ LET route == Route(PeerConfig, handlers[h].raw) IN
       peer' = [peer EXCEPT
                  !.served = Append(@, [h |-> h,
                                        attempt |-> handlers[h].i + 1,
                                        body |-> handlers[h].raw,
                                        route |-> route,
                                        status |-> IF route = "reject"
                                                   THEN StatusBadRequest
                                                   ELSE StatusOK]),
                  !.starts = IF route = "accept" THEN @ + 1 ELSE @]
    /\ UNCHANGED <<gsVars, awsVars, fwdVars, hbVars, lsnVars, startVars>>

\* http.Post returns without error once the peer has answered.
ForwardDelivered(h) ==
    /\ h \in 1..Len(handlers)
    /\ handlers[h].pc = "Post"
    /\ Served(h, handlers[h].i + 1)
    /\ ForwardPost(h, TRUE)

PeerNext ==
    \/ QueueReceive
    \/ PeerSqsReceive
    \/ \E h \in 1..MaxMessages : HandleMessage(h)
    \/ \E h \in 1..MaxMessages, ok \in BOOLEAN : ForwardGetHost(h, ok)
    \/ \E h \in 1..MaxMessages : PeerServeHTTP(h)
    \/ \E h \in 1..MaxMessages : ForwardDelivered(h)
    \/ \E h \in 1..MaxMessages : ForwardPost(h, FALSE)

\* Every instance goes on with what it is doing, and a notice that stays in
\* the queue is received; whether a lookup or a delivery attempt fails is for
\* the network to decide.
PeerFairness ==
    /\ WF_vars(QueueReceive)
    /\ WF_vars(PeerSqsReceive)
    /\ \A h \in 1..MaxMessages :
          /\ WF_vars(HandleMessage(h))
          /\ WF_vars(\E ok \in BOOLEAN : ForwardGetHost(h, ok))
          /\ WF_vars(PeerServeHTTP(h))
          /\ WF_vars(ForwardDelivered(h) \/ ForwardPost(h, FALSE))

PeerSpec == AwsInit /\ [][PeerNext]_vars /\ PeerFairness

\* The peer's ServeHTTP, lines 251-262: when reading the body fails the
\* peer answers 400 and does not look at the message.
PeerServeHTTPRead(h, readOk) ==
    /\ h \in 1..Len(handlers)
    /\ handlers[h].pc = "Post"
    /\ config.Port /= 0
    /\ ~Served(h, handlers[h].i + 1)
    /\ LET route == IF readOk THEN Route(PeerConfig, handlers[h].raw)
                    ELSE "reject"
       IN peer' = [peer EXCEPT
                     !.served = Append(@, [h |-> h,
                                           attempt |-> handlers[h].i + 1,
                                           body |-> handlers[h].raw,
                                           route |-> route,
                                           status |-> IF route = "reject"
                                                      THEN StatusBadRequest
                                                      ELSE StatusOK]),
                     !.starts = IF route = "accept" THEN @ + 1 ELSE @]
    /\ UNCHANGED <<gsVars, awsVars, fwdVars, hbVars, lsnVars, startVars>>

\* The status of the answer the manager's delivery attempt got.
StatusOf(h, attempt) ==
    LET k == CHOOSE k \in 1..Len(peer.served) :
                /\ peer.served[k].h = h
                /\ peer.served[k].attempt = attempt
    IN peer.served[k].status

\* http.Post returns without error once the peer has answered, whatever
\* the status of the answer: forwardMessage drops the response (line 340).
ForwardAnsweredCheckStatus(h) ==
    /\ h \in 1..Len(handlers)
    /\ handlers[h].pc = "Post"
    /\ Served(h, handlers[h].i + 1)
    /\ ForwardPost(h, StatusOf(h, handlers[h].i + 1) = StatusOK)

ForwardAnswered(h) ==
    /\ h \in 1..Len(handlers)
    /\ handlers[h].pc = "Post"
    /\ Served(h, handlers[h].i + 1)
    /\ ForwardPost(h, TRUE)

\* http.Post returns an error: the request did not reach the peer.
ForwardUnanswered(h) ==
    /\ h \in 1..Len(handlers)
    /\ handlers[h].pc = "Post"
    /\ ~Served(h, handlers[h].i + 1)
    /\ ForwardPost(h, FALSE)

\* The manager forwards the notice and the peer answers 200 or 400.
PostNext ==
    \/ QueueReceive
    \/ \E h \in 1..MaxMessages : HandleMessage(h)
    \/ \E h \in 1..MaxMessages, ok \in BOOLEAN : ForwardGetHost(h, ok)
    \/ \E h \in 1..MaxMessages, readOk \in BOOLEAN :
          PeerServeHTTPRead(h, readOk)
    \/ \E h \in 1..MaxMessages : ForwardAnswered(h)
    \/ \E h \in 1..MaxMessages : ForwardUnanswered(h)
    \/ \E h \in 1..MaxMessages, ok \in BOOLEAN : SqsDeleteReturn(h, ok)

\* The manager forwards on its port.
PostInit ==
    /\ AwsInit
    /\ config.Port = HttpPort

PostSpec == PostInit /\ [][PostNext]_vars

----------------------------------------------------------------------------
\* The shutdown episodes of the AwsManager: ShutdownStart, the heartbeat
\* goroutine and its ticker, ShutdownFinish.

HeartbeatError(b, n) == Err("SendHeartbeat", b, n)

\* time.NewTicker: a running ticker whose channel (of capacity 1) is empty.
NewTicker == [stopped |-> FALSE, c |-> 0, fired |-> 0, late |-> FALSE]

\* The goroutine of ShutdownStart, about to send its first heartbeat.
NewBeaterTickFirst(e) ==
    [e |-> e, pc |-> "recv", on |-> Len(tickers) + 1, calls |-> <<>>]

NewBeater(e) == [e |-> e, pc |-> "send", on |-> 0, calls |-> <<>>]

\* StartShutdown, line 274, with the manager's ShutdownStart (357-369): a new
\* ticker is stored in awsManager.ticker, the heartbeat goroutine is
\* started, ShutdownStart returns nil, which goes to ReportError. The
\* ticker and the goroutine get the same index.
AwsShutdownStartAnyEpisode(e) ==
    /\ e \in 1..Len(episodes)
    /\ episodes[e].pc = "ShutdownStart"
    /\ tickers' = Append(tickers, NewTicker)
    /\ ticker' = Len(tickers) + 1
    /\ beaters' = Append(beaters, NewBeater(e))
    /\ handled' = ReportError(errorHandler, NoError, handled)
    /\ episodes' = [episodes EXCEPT ![e].pc = "launch",
                                    ![e].ssCalls = @ + 1,
                                    ![e].n = Len(callbacks)]
    /\ UNCHANGED <<callbacks, managers, errorHandler, gsPc, startIdx,
                   startCalls, startFailed, startResult, reports>>
    /\ UNCHANGED <<awsVars, fwdVars, peerVars, lsnVars, startVars>>
    /\ UNCHANGED <<completions>>

AwsShutdownStart(e) ==
    /\ e \in 1..Len(episodes)
    /\ episodes[e].pc = "ShutdownStart"
    /\ episodes[e].sm = AwsManagerId
    /\ tickers' = Append(tickers, NewTicker)
    /\ ticker' = Len(tickers) + 1
    /\ beaters' = Append(beaters, NewBeater(e))
    /\ handled' = ReportError(errorHandler, NoError, handled)
    /\ episodes' = [episodes EXCEPT ![e].pc = "launch",
                                    ![e].ssCalls = @ + 1,
                                    ![e].n = Len(callbacks)]
    /\ UNCHANGED <<callbacks, managers, errorHandler, gsPc, startIdx,
                   startCalls, startFailed, startResult, reports>>
    /\ UNCHANGED <<awsVars, fwdVars, peerVars, lsnVars, startVars>>
    /\ UNCHANGED <<completions>>

\* The manager is the callback it registered in Start (line 234).
AwsCallback == 1

\* A goroutine of StartShutdown (lines 279-283) that invokes the manager's
\* OnShutdown (244-247): the listener is closed (the server started on it
\* ends), OnShutdown returns nil, which goes to ReportError, and the deferred
\* wg.Done() runs.
AwsOnShutdown(e, g) ==
    /\ e \in 1..Len(episodes)
    /\ g \in 1..Len(episodes[e].gor)
    /\ episodes[e].gor[g].st = "running"
    /\ episodes[e].gor[g].cb = AwsCallback
    /\ listener.bound
    /\ listener' = [listener EXCEPT !.closes = @ + 1, !.serving = FALSE]
    /\ handled' = ReportError(errorHandler, NoError, handled)
    /\ episodes' = [episodes EXCEPT ![e].wg = @ - 1,
                                    ![e].gor[g].st = "returned"]
    /\ UNCHANGED <<callbacks, managers, errorHandler, gsPc, startIdx,
                   startCalls, startFailed, startResult, reports>>
    /\ UNCHANGED <<awsVars, fwdVars, peerVars, hbVars, startVars>>

\* The same goroutine when awsManager.listener is nil (no port, line 228):
\* the call of Close on the nil interface value (line 245) panics; no
\* goroutine recovers, so the panic ends the program.
AwsOnShutdownNilListener(e, g) ==
    /\ e \in 1..Len(episodes)
    /\ g \in 1..Len(episodes[e].gor)
    /\ episodes[e].gor[g].st = "running"
    /\ episodes[e].gor[g].cb = AwsCallback
    /\ ~listener.bound
    /\ episodes' = [episodes EXCEPT ![e].gor[g].st = "panicked"]
    /\ UNCHANGED <<callbacks, managers, errorHandler, handled, gsPc,
                   startIdx, startCalls, startFailed, startResult, reports>>
    /\ UNCHANGED <<awsVars, extVars>>

\* A panic has ended the program.
Crashed ==
    \E e \in 1..Len(episodes) : \E g \in 1..Len(episodes[e].gor) :
       episodes[e].gor[g].st = "panicked"

\* The heartbeat goroutine, lines 361-365: api.SendHeartbeat is called with
\* the group name and the token the manager holds now; its result goes to
\* ReportError; then the goroutine reads awsManager.ticker and waits on that
\* ticker's channel.
HeartbeatSendStopOnError(b, ok) ==
    /\ b \in 1..Len(beaters)
    /\ beaters[b].pc = "send"
    /\ beaters' =
         [beaters EXCEPT
            ![b].pc = IF ok THEN "recv" ELSE "returned",
            ![b].on = ticker,
            ![b].calls = Append(@, [group |-> autoscalingGroupName,
                                    token |-> lifecycleActionToken,
                                    ok |-> ok,
                                    stopped |-> tickers[b].stopped])]
    /\ handled' = ReportError(errorHandler,
                              IF ok THEN NoError
                              ELSE HeartbeatError(b, Len(beaters[b].calls)),
                              handled)
    /\ UNCHANGED <<callbacks, managers, errorHandler, gsPc, startIdx,
                   startCalls, startFailed, startResult, episodes, reports>>
    /\ UNCHANGED <<awsVars, fwdVars, peerVars, lsnVars, startVars>>
    /\ UNCHANGED <<tickers, ticker, completions>>

HeartbeatSend(b, ok) ==
    /\ b \in 1..Len(beaters)
    /\ beaters[b].pc = "send"
    /\ beaters' =
         [beaters EXCEPT
            ![b].pc = "recv",
            ![b].on = ticker,
            ![b].calls = Append(@, [group |-> autoscalingGroupName,
                                    token |-> lifecycleActionToken,
                                    ok |-> ok,
                                    stopped |-> tickers[b].stopped])]
    /\ handled' = ReportError(errorHandler,
                              IF ok THEN NoError
                              ELSE HeartbeatError(b, Len(beaters[b].calls)),
                              handled)
    /\ UNCHANGED <<callbacks, managers, errorHandler, gsPc, startIdx,
                   startCalls, startFailed, startResult, episodes, reports>>
    /\ UNCHANGED <<awsVars, fwdVars, peerVars, lsnVars, startVars>>
    /\ UNCHANGED <<tickers, ticker, completions>>

\* The heartbeat goroutine, line 365: a tick is received from the channel
\* the goroutine waits on.
HeartbeatTickOrReturn(b) ==
    /\ b \in 1..Len(beaters)
    /\ beaters[b].pc = "recv"
    /\ IF tickers[beaters[b].on].c = 1
       THEN /\ tickers' = [tickers EXCEPT ![beaters[b].on].c = 0]
            /\ beaters' = [beaters EXCEPT ![b].pc = "send"]
       ELSE /\ tickers[beaters[b].on].stopped
            /\ beaters' = [beaters EXCEPT ![b].pc = "returned"]
            /\ UNCHANGED tickers
    /\ UNCHANGED <<gsVars, awsVars, fwdVars, peerVars, lsnVars, startVars>>
    /\ UNCHANGED <<ticker, completions>>

HeartbeatTick(b) ==
    /\ b \in 1..Len(beaters)
    /\ beaters[b].pc = "recv"
    /\ tickers[beaters[b].on].c = 1
    /\ tickers' = [tickers EXCEPT ![beaters[b].on].c = 0]
    /\ beaters' = [beaters EXCEPT ![b].pc = "send"]
    /\ UNCHANGED <<gsVars, awsVars, fwdVars, peerVars, lsnVars, startVars>>
    /\ UNCHANGED <<ticker, completions>>

\* The goroutine of ticker t waits on the ticker's empty channel.
Waiting(t) ==
    /\ beaters[t].pc = "recv"
    /\ beaters[t].on = t
    /\ tickers[t].c = 0

\* A period of a running ticker has passed: the ticker puts a tick in its
\* channel, or drops it when the channel is full. The tick is late for a
\* goroutine that was not waiting for it.
TickerFire(t) ==
    /\ t \in 1..Len(tickers)
    /\ ~tickers[t].stopped
    /\ tickers[t].fired < MaxTicks
    /\ tickers' = [tickers EXCEPT ![t].c = 1,
                                  ![t].fired = @ + 1,
                                  ![t].late = @ \/ ~Waiting(t)]
    /\ UNCHANGED <<gsVars, awsVars, fwdVars, peerVars, lsnVars, startVars>>
    /\ UNCHANGED <<ticker, beaters, completions>>

\* StartShutdown, lines 286-288, with the manager's ShutdownFinish, line
\* 374: wg.Wait() returns and awsManager.ticker.Stop() stops the ticker the
\* manager holds now.
AwsTickerStopNoWait(e) ==
    /\ e \in 1..Len(episodes)
    /\ episodes[e].pc = "wait"
    /\ episodes[e].sm = AwsManagerId
    /\ tickers' = [tickers EXCEPT ![ticker].stopped = TRUE]
    /\ episodes' = [episodes EXCEPT ![e].pc = "CompleteLifecycleAction"]
    /\ UNCHANGED <<callbacks, managers, errorHandler, handled, gsPc,
                   startIdx, startCalls, startFailed, startResult, reports>>
    /\ UNCHANGED <<awsVars, fwdVars, peerVars, lsnVars, startVars>>
    /\ UNCHANGED <<ticker, beaters, completions>>

AwsTickerStop(e) ==
    /\ e \in 1..Len(episodes)
    /\ episodes[e].pc = "wait"
    /\ WaitDone(episodes[e])
    /\ episodes[e].sm = AwsManagerId
    /\ tickers' = [tickers EXCEPT ![ticker].stopped = TRUE]
    /\ episodes' = [episodes EXCEPT ![e].pc = "CompleteLifecycleAction"]
    /\ UNCHANGED <<callbacks, managers, errorHandler, handled, gsPc,
                   startIdx, startCalls, startFailed, startResult, reports>>
    /\ UNCHANGED <<awsVars, fwdVars, peerVars, lsnVars, startVars>>
    /\ UNCHANGED <<ticker, beaters, completions>>

\* ShutdownFinish, lines 376-379, and StartShutdown, line 288:
\* api.CompleteLifecycleAction is called with the group name and the token
\* the manager holds now; its result is what ShutdownFinish returns, which
\* goes to ReportError; StartShutdown returns.
AwsCompleteRetry(e, ok) ==
    /\ e \in 1..Len(episodes)
    /\ episodes[e].pc = "CompleteLifecycleAction"
    /\ completions' = Append(completions,
                             [e |-> e,
                              group |-> autoscalingGroupName,
                              token |-> lifecycleActionToken,
                              ok |-> ok,
                              stopped |-> tickers[ticker].stopped])
    /\ handled' = ReportError(errorHandler,
                              IF ok THEN NoError ELSE ShutdownFinishError(e),
                              handled)
    /\ episodes' = [episodes EXCEPT
                      ![e].pc = IF ok THEN "done" ELSE @,
                      ![e].sfCalls = IF ok THEN @ + 1 ELSE @]
    /\ UNCHANGED <<callbacks, managers, errorHandler, gsPc, startIdx,
                   startCalls, startFailed, startResult, reports>>
    /\ UNCHANGED <<awsVars, fwdVars, peerVars, lsnVars, startVars>>
    /\ UNCHANGED <<tickers, ticker, beaters>>

AwsComplete(e, ok) ==
    /\ e \in 1..Len(episodes)
    /\ episodes[e].pc = "CompleteLifecycleAction"
    /\ completions' = Append(completions,
                             [e |-> e,
                              group |-> autoscalingGroupName,
                              token |-> lifecycleActionToken,
                              ok |-> ok,
                              stopped |-> tickers[ticker].stopped])
    /\ handled' = ReportError(errorHandler,
                              IF ok THEN NoError ELSE ShutdownFinishError(e),
                              handled)
    /\ episodes' = [episodes EXCEPT ![e].pc = "done",
                                    ![e].sfCalls = @ + 1]
    /\ UNCHANGED <<callbacks, managers, errorHandler, gsPc, startIdx,
                   startCalls, startFailed, startResult, reports>>
    /\ UNCHANGED <<awsVars, fwdVars, peerVars, lsnVars, startVars>>
    /\ UNCHANGED <<tickers, ticker, beaters>>

\* A termination notice for the manager's own instance.
OwnNotice(n) == Doc(MyHook, Terminating, OwnInstance, n)

\* The manager listens to the queue and on its port (so that its own
\* callback has a listener to close); forwarding plays no part in its
\* shutdown episodes.
HbInit ==
    /\ AwsInit
    /\ config.Port = HttpPort
    /\ requested = 0

\* The queue holds one notice for the manager's own instance: it is there
\* until the manager has received and deleted it.
OwnNoticeVisible ==
    \A h \in 1..Len(handlers) :
       handlers[h].pc = "done" /\ handlers[h].deletes = 0

\* What the manager does with a notice for its own instance: the call of
\* handleMessage and the shutdown episode it starts.
EpisodeSteps ==
    \/ \E h \in 1..Len(handlers) : HandleMessage(h)
    \/ \E h \in 1..Len(handlers) : HandleAccepted(h)
    \/ \E e \in 1..Len(episodes) : AwsShutdownStart(e)
    \/ \E e \in 1..Len(episodes) : EpLaunch(e)
    \/ \E e \in 1..Len(episodes), g \in 1..MaxCallbacks : AwsOnShutdown(e, g)
    \/ \E e \in 1..Len(episodes) : AwsTickerStop(e)
    \/ \E e \in 1..Len(episodes), ok \in BOOLEAN : AwsComplete(e, ok)
    \/ \E b \in 1..Len(beaters), ok \in BOOLEAN : HeartbeatSend(b, ok)

\* One notice, and the periods of the ticker pass.
HbNext ==
    \/ \E n \in {1, 2} : OwnNoticeVisible /\ SqsReceive(OwnNotice(n))
    \/ EpisodeSteps
    \/ \E b \in 1..Len(beaters) : HeartbeatTick(b)
    \/ \E t \in 1..Len(tickers) : TickerFire(t)

HbSpec == HbInit /\ [][HbNext]_vars

\* Several notices, the queue delivers one after the other; the episodes
\* are over before a period of a ticker has passed.
ReentryNext ==
    \/ \E n \in {1, 2} :
          Len(handlers) < MaxNotices /\ SqsReceive(OwnNotice(n))
    \/ EpisodeSteps

ReentrySpec == HbInit /\ [][ReentryNext]_vars

\* Notices for the manager's own instance that come one after the other:
\* the queue gives the next one when the episode of the one before has
\* returned; up to MaxPeriods periods of the tickers pass; the calls of the
\* autoscaling API succeed.
RECURSIVE Fired(_)
Fired(t) == IF t = 0 THEN 0 ELSE tickers[t].fired + Fired(t - 1)

WorkerNext ==
    \/ /\ Len(handlers) < MaxNotices
       /\ \A h \in 1..Len(handlers) : handlers[h].pc = "done"
       /\ Len(episodes) = Len(handlers)
       /\ \A e \in 1..Len(episodes) : episodes[e].pc = "done"
       /\ SqsReceive(OwnNotice(Len(handlers) + 1))
    \/ \E h \in 1..Len(handlers) : HandleMessage(h)
    \/ \E h \in 1..Len(handlers) : HandleAccepted(h)
    \/ \E e \in 1..Len(episodes) : AwsShutdownStart(e)
    \/ \E e \in 1..Len(episodes) : EpLaunch(e)
    \/ \E e \in 1..Len(episodes), g \in 1..MaxCallbacks : AwsOnShutdown(e, g)
    \/ \E e \in 1..Len(episodes) : AwsTickerStop(e)
    \/ \E e \in 1..Len(episodes) : AwsComplete(e, TRUE)
    \/ \E b \in 1..Len(beaters) : HeartbeatSend(b, TRUE)
    \/ \E b \in 1..Len(beaters) : HeartbeatTick(b)
    \/ \E t \in 1..Len(tickers) :
          Fired(Len(tickers)) < MaxPeriods /\ TickerFire(t)

\* Every goroutine goes on with what it is doing; whether a period of a
\* ticker passes and whether a notice comes is for the environment.
WorkerFairness ==
    /\ \A h \in 1..MaxNotices :
          /\ WF_handlers(HandleMessage(h))
          /\ WF_handlers(HandleAccepted(h))
    /\ \A e \in 1..MaxNotices :
          /\ WF_episodes(AwsShutdownStart(e))
          /\ WF_episodes(EpLaunch(e))
          /\ WF_episodes(\E g \in 1..MaxCallbacks : AwsOnShutdown(e, g))
          /\ WF_episodes(AwsTickerStop(e))
          /\ WF_episodes(AwsComplete(e, TRUE))
    /\ \A b \in 1..MaxNotices :
          /\ WF_beaters(HeartbeatSend(b, TRUE))
          /\ WF_beaters(HeartbeatTick(b))

\* No call fails here, so the error handler plays no part.
WorkerInit == HbInit /\ errorHandler = NoHandler

WorkerSpec == WorkerInit /\ [][WorkerNext]_vars /\ WorkerFairness

\* One notice for the manager's own instance among messages that are none
\* of its business; they come from the queue and, while the manager serves
\* its port, over HTTP.
OtherMessages == {NotJson, Doc(OtherHook, Terminating, OwnInstance, 1)}

OwnNoticeSeen ==
    \E h \in 1..Len(handlers) : handlers[h].raw = OwnNotice(1)

PollNext ==
    \/ /\ ~OwnNoticeSeen
       /\ Len(handlers) < MaxNotices
       /\ SqsReceive(OwnNotice(1))
    \/ \E raw \in OtherMessages :
          Len(handlers) < MaxNotices /\ SqsReceive(raw)
    \/ \E raw \in OtherMessages :
          /\ listener.serving
          /\ Len(handlers) < MaxNotices
          /\ HttpRequest(raw, TRUE)
    \/ EpisodeSteps

PollSpec == HbInit /\ [][PollNext]_vars

\* The manager with a port or without one, and one notice for its own
\* instance in the queue; the program runs until a panic ends it.
CloseInit ==
    /\ AwsInit
    /\ requested = 0

CloseNext ==
    \/ \E n \in {1, 2} :
          /\ ~Crashed
          /\ OwnNoticeVisible
          /\ SqsReceive(OwnNotice(n))
    \/ ~Crashed /\ EpisodeSteps
    \/ \E e \in 1..Len(episodes), g \in 1..MaxCallbacks :
          ~Crashed /\ AwsOnShutdownNilListener(e, g)

CloseSpec == CloseInit /\ [][CloseNext]_vars

\* The orchestrator with two managers, the AwsManager and another one (such
\* as the manager that listens for signals), both started; the callbacks
\* are the AwsManager's own and, or not, one of the program. Either manager
\* calls StartShutdown: the AwsManager for a notice, the other when it
\* sees fit.
OtherManagerId == 2

AwsStartedAmong(cbs, mgrs) ==
    /\ callbacks = cbs
    /\ managers = mgrs
    /\ startCalls = [m \in 1..Len(mgrs) |-> 1]
    /\ startIdx = Len(mgrs) + 1
    /\ startFailed = {}
    /\ startResult = NoError
    /\ gsPc = "returned"
    /\ errorHandler \in {NoHandler, UserHandler}
    /\ handled = EmptyBag
    /\ episodes = <<>>
    /\ reports = [nil |-> 0, err |-> 0]
    /\ requested = 0
    /\ listener = OpenListener
    /\ config = [LifecycleHookName |-> MyHook,
                 InstanceId |-> OwnInstance,
                 Port |-> HttpPort,
                 SqsQueueName |-> QueueName,
                 NumForwardRetries |-> CleanRetries(0),
                 NumServeRetries |-> CleanServeRetries(0),
                 Region |-> RegionOfZone(Zone)]
    /\ awsStart = Started(QueueName)
    /\ lifecycleActionToken = ""
    /\ autoscalingGroupName = ""
    /\ handlers = <<>>
    /\ peer = [served |-> <<>>, starts |-> 0, deleted |-> FALSE]
    /\ tickers = <<>>
    /\ ticker = 0
    /\ beaters = <<>>
    /\ completions = <<>>

TwoInit ==
    \E cbs \in {<<1>>, <<1, 2>>} :
       AwsStartedAmong(cbs, <<AwsManagerId, OtherManagerId>>)

\* The episodes that run or are about to be started by a notice.
EpisodesBegun ==
    Len(episodes)
    + Cardinality({h \in 1..Len(handlers) : handlers[h].pc /= "done"})

TwoNext ==
    \/ EpisodesBegun < MaxEpisodes /\ Trigger(OtherManagerId)
    \/ \E n \in {1, 2} :
          /\ EpisodesBegun < MaxEpisodes
          /\ SqsReceive(OwnNotice(n))
    \/ EpisodeSteps
    \/ \E e \in 1..Len(episodes), ok \in BOOLEAN :
          episodes[e].sm /= AwsManagerId /\ EpShutdownStart(e, ok)
    \/ \E e \in 1..Len(episodes), g \in 1..MaxCallbacks, ok \in BOOLEAN :
          /\ g \in 1..Len(episodes[e].gor)
          /\ episodes[e].gor[g].cb /= AwsCallback
          /\ CallbackReturn(e, g, ok)
    \/ \E e \in 1..Len(episodes), ok \in BOOLEAN :
          episodes[e].sm /= AwsManagerId /\ EpShutdownFinish(e, ok)

TwoSpec == TwoInit /\ [][TwoNext]_vars

\* ReportError, lines 293-297, as two steps: errorHandler.OnError(err) is
\* invoked on the goroutine that calls ReportError, runs for as long as the
\* program's handler takes, and returns. ReportError takes no lock.

\* A goroutine of StartShutdown (279-283) whose callback returned an error:
\* the handler is invoked with it.
CallbackOnErrorSerialized(e, g) ==
    /\ e \in 1..Len(episodes)
    /\ g \in 1..Len(episodes[e].gor)
    /\ episodes[e].gor[g].st = "running"
    /\ episodes[e].gor[g].cb /= AwsCallback
    /\ errorHandler /= NoHandler
    /\ \A o \in 1..Len(episodes[e].gor) :
          episodes[e].gor[o].st /= "reporting"
    /\ \A b \in 1..Len(beaters) : beaters[b].pc /= "reporting"
    /\ handled' = handled
                     (+) SetToBag({CallbackError(e, episodes[e].gor[g].cb)})
    /\ episodes' = [episodes EXCEPT ![e].gor[g].st = "reporting"]
    /\ UNCHANGED <<callbacks, managers, errorHandler, gsPc, startIdx,
                   startCalls, startFailed, startResult, reports>>
    /\ UNCHANGED awsVars
    /\ UNCHANGED extVars

CallbackOnError(e, g) ==
    /\ e \in 1..Len(episodes)
    /\ g \in 1..Len(episodes[e].gor)
    /\ episodes[e].gor[g].st = "running"
    /\ episodes[e].gor[g].cb /= AwsCallback
    /\ errorHandler /= NoHandler
    /\ handled' = handled
                     (+) SetToBag({CallbackError(e, episodes[e].gor[g].cb)})
    /\ episodes' = [episodes EXCEPT ![e].gor[g].st = "reporting"]
    /\ UNCHANGED <<callbacks, managers, errorHandler, gsPc, startIdx,
                   startCalls, startFailed, startResult, reports>>
    /\ UNCHANGED awsVars
    /\ UNCHANGED extVars

\* The handler returns to that goroutine; the deferred wg.Done() runs.
CallbackOnErrorReturn(e, g) ==
    /\ e \in 1..Len(episodes)
    /\ g \in 1..Len(episodes[e].gor)
    /\ episodes[e].gor[g].st = "reporting"
    /\ episodes' = [episodes EXCEPT ![e].wg = @ - 1,
                                    ![e].gor[g].st = "failed"]
    /\ UNCHANGED <<callbacks, managers, errorHandler, handled, gsPc,
                   startIdx, startCalls, startFailed, startResult, reports>>
    /\ UNCHANGED awsVars
    /\ UNCHANGED extVars

\* The heartbeat goroutine, line 361: SendHeartbeat returned an error and
\* the handler is invoked with it.
HeartbeatOnError(b) ==
    /\ b \in 1..Len(beaters)
    /\ beaters[b].pc = "send"
    /\ errorHandler /= NoHandler
    /\ beaters' =
         [beaters EXCEPT
            ![b].pc = "reporting",
            ![b].calls = Append(@, [group |-> autoscalingGroupName,
                                    token |-> lifecycleActionToken,
                                    ok |-> FALSE,
                                    stopped |-> tickers[b].stopped])]
    /\ handled' = handled
                     (+) SetToBag({HeartbeatError(b, Len(beaters[b].calls))})
    /\ UNCHANGED <<callbacks, managers, errorHandler, gsPc, startIdx,
                   startCalls, startFailed, startResult, episodes, reports>>
    /\ UNCHANGED <<awsVars, fwdVars, peerVars, lsnVars, startVars>>
    /\ UNCHANGED <<tickers, ticker, completions>>

\* The handler returns to the heartbeat goroutine, which goes on to wait
\* for a tick of the ticker the manager holds now (line 365).
HeartbeatOnErrorReturn(b) ==
    /\ b \in 1..Len(beaters)
    /\ beaters[b].pc = "reporting"
    /\ beaters' = [beaters EXCEPT ![b].pc = "recv", ![b].on = ticker]
    /\ UNCHANGED <<gsVars, awsVars, fwdVars, peerVars, lsnVars, startVars>>
    /\ UNCHANGED <<tickers, ticker, completions>>

\* The manager with its own callback and MaxCallbacks callbacks of the
\* program, and an error handler.
HandlerInit ==
    /\ AwsStartedAmong([c \in 1..(MaxCallbacks + 1) |-> c], <<AwsManagerId>>)
    /\ errorHandler = UserHandler

\* One notice for the manager's own instance and its episode; the
\* callbacks of the program and SendHeartbeat succeed or fail.
HandlerNext ==
    \/ OwnNoticeVisible /\ SqsReceive(OwnNotice(1))
    \/ \E h \in 1..Len(handlers) : HandleMessage(h)
    \/ \E h \in 1..Len(handlers) : HandleAccepted(h)
    \/ \E e \in 1..Len(episodes) : AwsShutdownStart(e)
    \/ \E e \in 1..Len(episodes) : EpLaunch(e)
    \/ \E e \in 1..Len(episodes), g \in 1..(MaxCallbacks + 1) :
          AwsOnShutdown(e, g)
    \/ \E e \in 1..Len(episodes), g \in 1..(MaxCallbacks + 1) :
          /\ g \in 1..Len(episodes[e].gor)
          /\ episodes[e].gor[g].cb /= AwsCallback
          /\ CallbackReturn(e, g, TRUE)
    \/ \E e \in 1..Len(episodes), g \in 1..(MaxCallbacks + 1) :
          CallbackOnError(e, g)
    \/ \E e \in 1..Len(episodes), g \in 1..(MaxCallbacks + 1) :
          CallbackOnErrorReturn(e, g)
    \/ \E e \in 1..Len(episodes) : AwsTickerStop(e)
    \/ \E e \in 1..Len(episodes), ok \in BOOLEAN : AwsComplete(e, ok)
    \/ \E b \in 1..Len(beaters) : HeartbeatSend(b, TRUE)
    \/ \E b \in 1..Len(beaters) : HeartbeatOnError(b)
    \/ \E b \in 1..Len(beaters) : HeartbeatOnErrorReturn(b)

HandlerSpec == HandlerInit /\ [][HandlerNext]_vars

\* The queue loop of a manager that listens on its port, round after round:
\* the queue gives a message that is no JSON, a notice for the manager's own
\* instance (once), a notice for another instance, nothing, or an error;
\* the episode of the own notice runs beside the loop.
LoopMessages == {NotJson, OwnNotice(1), Notice}

LoopInit ==
    /\ AwsInit
    /\ config.Port = HttpPort
    /\ requested \in {-1, 1}

LoopNext ==
    \/ \E raw \in LoopMessages :
          /\ Len(handlers) < MaxNotices
          /\ ~DeletePending
          /\ raw = OwnNotice(1) => ~OwnNoticeSeen
          /\ SqsReceive(raw)
    \/ \E ok \in BOOLEAN :
          /\ Len(handlers) < MaxNotices
          /\ ~DeletePending
          /\ SqsReceiveNone(ok)
    \/ \E h \in 1..Len(handlers), ok \in BOOLEAN : ForwardGetHost(h, ok)
    \/ \E h \in 1..Len(handlers), ok \in BOOLEAN : ForwardPost(h, ok)
    \/ \E h \in 1..Len(handlers), ok \in BOOLEAN : SqsDeleteReturn(h, ok)
    \/ EpisodeSteps

\* The goroutine of listenSQS goes on with what it is doing: every call it
\* makes returns.
LoopFairness ==
    \A h \in 1..MaxNotices :
       /\ WF_handlers(HandleMessage(h))
       /\ WF_handlers(HandleAccepted(h))
       /\ WF_handlers(\E ok \in BOOLEAN : ForwardGetHost(h, ok))
       /\ WF_handlers(\E ok \in BOOLEAN : ForwardPost(h, ok))
       /\ WF_handlers(\E ok \in BOOLEAN : SqsDeleteReturn(h, ok))

LoopSpec == LoopInit /\ [][LoopNext]_vars /\ LoopFairness

\* Two instances forward to each other. GetHost gives for an instance id
\* the address of the instance that is configured with that id (HostOf), so
\* a request the manager posts to HostOf(PeerInstance) is served by the peer
\* and a request the peer posts to HostOf(OwnInstance) by the manager.

\* The manager's listenSQS receives a notice addressed to the peer.
HopReceive ==
    /\ Len(handlers) < MaxNotices
    /\ SqsReceive(Notice)

\* The peer's listenSQS receives a notice addressed to the manager: its
\* handleMessage (lines 300-331, with the peer's configuration) calls
\* forwardMessage, whose request the manager's ServeHTTP reads or fails to
\* read (lines 251-255).
PeerForward(readOk) ==
    /\ Len(handlers) < MaxNotices
    /\ Route(PeerConfig, OwnNotice(Len(handlers) + 1)) = "forward"
    /\ HttpRequest(OwnNotice(Len(handlers) + 1), readOk)

HopNext ==
    \/ HopReceive
    \/ \E readOk \in BOOLEAN : PeerForward(readOk)
    \/ \E h \in 1..MaxNotices : HandleMessage(h)
    \/ \E h \in 1..MaxNotices : HandleAccepted(h)
    \/ \E h \in 1..MaxNotices, ok \in BOOLEAN : ForwardGetHost(h, ok)
    \/ \E h \in 1..MaxNotices, readOk \in BOOLEAN :
          PeerServeHTTPRead(h, readOk)
    \/ \E h \in 1..MaxNotices : ForwardAnswered(h)
    \/ \E h \in 1..MaxNotices : ForwardUnanswered(h)
    \/ \E h \in 1..MaxNotices, ok \in BOOLEAN : SqsDeleteReturn(h, ok)

\* Both instances forward on their port, with no retry or with one.
HopInit ==
    /\ PostInit
    /\ requested \in {-1, 1}

HopSpec == HopInit /\ [][HopNext]_vars

----------------------------------------------------------------------------
\* What the claims speak about.
Eps == 1..Len(episodes)
Goroutines(e) == 1..Len(episodes[e].gor)
GoroutineReturned(e, g) == episodes[e].gor[g].st \in {"returned", "failed"}
\* The goroutines of episode e that invoked callback c.
Invocations(e, c) == {g \in Goroutines(e) : episodes[e].gor[g].cb = c}
FailedGoroutines(e) == {g \in Goroutines(e) : episodes[e].gor[g].st = "failed"}

\* C1: with N callbacks registered, for every N >= 0, StartShutdown returns
\* only after each of them was invoked exactly once in the episode and has
\* returned; no callback is invoked twice at any time.
C1_CallbacksOnceBeforeReturn ==
    \A e \in Eps :
       /\ \A c \in 1..Len(callbacks) : Cardinality(Invocations(e, c)) <= 1
       /\ episodes[e].pc = "done" =>
             \A c \in 1..Len(callbacks) :
                /\ Cardinality(Invocations(e, c)) = 1
                /\ \A g \in Invocations(e, c) : GoroutineReturned(e, g)

C1_Witness ==
    \E e \in Eps :
       /\ episodes[e].pc = "done"
       /\ Len(callbacks) >= 2
       /\ \A c \in 1..Len(callbacks) : Invocations(e, c) /= {}

\* C2: in one StartShutdown call the manager's ShutdownStart has returned
\* before any callback is launched, and its ShutdownFinish is invoked exactly
\* once, only after every callback was launched and has returned.
C2_StartFinishOrder ==
    \A e \in Eps :
       LET ep == episodes[e] IN
       /\ Len(ep.gor) > 0 => ep.ssCalls = 1
       /\ ep.ssCalls <= 1
       /\ ep.sfCalls <= 1
       /\ ep.pc = "done" => ep.sfCalls = 1
       /\ ep.sfCalls >= 1 =>
             /\ Len(ep.gor) = Len(callbacks)
             /\ \A g \in Goroutines(e) : GoroutineReturned(e, g)

C2_Witness ==
    \E e \in Eps :
       /\ episodes[e].sfCalls = 1
       /\ episodes[e].ssCalls = 1
       /\ Len(episodes[e].gor) >= 2

\* C3: when every callback returns and the threads are scheduled fairly,
\* every StartShutdown call that began calls ShutdownFinish and returns.
C3_ShutdownFinishes ==
    \A e \in 1..MaxEpisodes :
       (Len(episodes) >= e)
          ~> (/\ Len(episodes) >= e
              /\ episodes[e].pc = "done"
              /\ episodes[e].sfCalls = 1)

C3_Witness ==
    \E e \in Eps :
       /\ episodes[e].pc = "done"
       /\ episodes[e].sfCalls = 1
       /\ Len(episodes[e].gor) >= 1
       /\ \A g \in Goroutines(e) : GoroutineReturned(e, g)

\* C4: a callback that returned an error neither cancels nor blocks another
\* one: the loop still launches the others, a running callback can still
\* return, and ShutdownFinish is called once all have returned; with a
\* handler set, the handler is invoked once per callback that returned an
\* error, with that callback's error, and for no other callback.
C4_CallbackErrorsIndependent ==
    \A e \in Eps :
       LET ep == episodes[e] IN
       /\ (ep.pc = "launch" /\ Len(ep.gor) < ep.n) => ENABLED EpLaunch(e)
       /\ \A g \in Goroutines(e) :
             ep.gor[g].st = "running" =>
                ENABLED (\E ok \in BOOLEAN : CallbackReturn(e, g, ok))
       /\ (ep.pc = "wait" /\ \A g \in Goroutines(e) : GoroutineReturned(e, g)) =>
             ENABLED (\E ok \in BOOLEAN : EpShutdownFinish(e, ok))
       /\ ep.pc = "done" => Len(ep.gor) = Len(callbacks)
       /\ \A c \in 1..Len(callbacks) :
             CopiesIn(CallbackError(e, c), handled) =
                IF errorHandler = NoHandler
                THEN 0
                ELSE Cardinality(Invocations(e, c) \cap FailedGoroutines(e))

C4_Witness ==
    \E e \in Eps :
       /\ episodes[e].pc = "done"
       /\ errorHandler /= NoHandler
       /\ \E g, o \in Goroutines(e) :
             /\ episodes[e].gor[g].st = "failed"
             /\ episodes[e].gor[o].st = "returned"
             /\ CopiesIn(CallbackError(e, episodes[e].gor[g].cb), handled) = 1

\* C5: Start calls the managers' Start one at a time in registration order;
\* when manager k's Start fails, Start returns that error, the managers after
\* k are never started and those up to k were started once and stay so; when
\* none fails every manager is started exactly once and Start returns nil.
C5_StartFailFast ==
    /\ \A m \in 1..Len(managers) : startCalls[m] <= 1
    /\ \A m, k \in 1..Len(managers) :
          (m < k /\ startCalls[k] = 1) => startCalls[m] = 1
    /\ gsPc = "returned" =>
          IF startFailed = {}
          THEN /\ startResult = NoError
               /\ \A m \in 1..Len(managers) : startCalls[m] = 1
          ELSE \E k \in 1..Len(managers) :
                  /\ startFailed = {k}
                  /\ startResult = StartError(k)
                  /\ \A m \in 1..Len(managers) :
                        startCalls[m] = IF m <= k THEN 1 ELSE 0

C5_Witness ==
    /\ gsPc = "returned"
    /\ Len(managers) >= 2
    /\ startResult = StartError(1)
    /\ startCalls[1] = 1
    /\ startCalls[2] = 0

\* C6: ReportError(nil) never invokes the error handler; ReportError(err)
\* with err not nil invokes the handler that is set exactly once, with err;
\* with no handler set it invokes nothing.
C6_ReportError ==
    /\ CopiesIn(NoError, handled) = 0
    /\ CopiesIn(MyError, handled) =
          IF errorHandler = NoHandler THEN 0 ELSE reports.err
    /\ BagToSet(handled) \subseteq {MyError}

C6_Witness ==
    /\ errorHandler /= NoHandler
    /\ reports.nil = 1
    /\ reports.err = 1
    /\ handled = SetToBag({MyError})

----------------------------------------------------------------------------
\* What the claims about the AwsManager's messages speak about.

Handlers == 1..Len(handlers)

\* The decoded message of a round or request.
Msg(h) == Decode(handlers[h].raw).msg

\* A decodable message with the configured hook name and the terminating
\* transition.
Matching(h) ==
    /\ handlers[h].got
    /\ Decode(handlers[h].raw).ok
    /\ Msg(h)["LifecycleHookName"] = config.LifecycleHookName
    /\ Msg(h)["LifecycleTransition"] = "autoscaling:EC2_INSTANCE_TERMINATING"

ForOwn(h) == Matching(h) /\ Msg(h)["EC2InstanceId"] = config.InstanceId

ForPeer(h) == Matching(h) /\ Msg(h)["EC2InstanceId"] /= config.InstanceId

Unmatched(h) == handlers[h].got /\ ~Matching(h)

Done(h) == handlers[h].pc = "done"

\* C7: a decodable message with the configured hook name, the terminating
\* transition and the manager's own instance id: its handling writes the
\* message's token and group name to the manager (and they are the stored
\* values when no other such message was handled), starts StartShutdown
\* exactly once, with this manager, deletes the message exactly once when it
\* came from the queue, and answers 200 when it came over HTTP.
C7_OwnNoticeAccepted ==
    /\ \A h \in Handlers : ForOwn(h) =>
          LET rec == handlers[h] IN
          /\ rec.starts <= 1 /\ rec.deletes <= 1
          /\ ~Done(h) => rec.starts = 0 /\ rec.deletes = 0 /\ rec.resp = 0
          /\ Done(h) =>
                /\ rec.result = "true"
                /\ rec.wrote = <<Msg(h)["LifecycleActionToken"],
                                 Msg(h)["AutoScalingGroupName"]>>
                /\ rec.starts = 1
                /\ rec.src = "sqs" => rec.deletes = 1 /\ rec.resp = 0
                /\ rec.src = "http" => rec.deletes = 0 /\ rec.resp = 200
                /\ (\A k \in Handlers \ {h} : ~ForOwn(k)) =>
                      /\ lifecycleActionToken = Msg(h)["LifecycleActionToken"]
                      /\ autoscalingGroupName = Msg(h)["AutoScalingGroupName"]
    /\ Len(episodes) = Cardinality({h \in Handlers : handlers[h].starts = 1})
    /\ \A e \in 1..Len(episodes) : episodes[e].sm = AwsManagerId

C7_Witness ==
    \E h \in Handlers :
       /\ ForOwn(h) /\ Done(h)
       /\ handlers[h].src = "sqs" /\ handlers[h].deletes = 1
       /\ lifecycleActionToken = <<"token", 2>>
       /\ autoscalingGroupName = <<"group", 2>>
       /\ Len(episodes) = 1

\* C8: a decodable terminating message with the configured hook name for
\* another instance, when the port is not zero: it is forwarded exactly once,
\* every delivery attempt posts the raw message to the host looked up for the
\* message's instance id, no StartShutdown is started and nothing is written
\* to the stored token and group name.
C8_PeerNoticeForwarded ==
    /\ \A h \in Handlers : (ForPeer(h) /\ config.Port /= 0) =>
          LET rec == handlers[h]
              instance == Msg(h)["EC2InstanceId"]
          IN /\ rec.starts = 0
             /\ rec.wrote = <<>>
             /\ rec.forwards = IF rec.pc = "handleMessage" THEN 0 ELSE 1
             /\ rec.pc \in {"handleMessage", "GetHost", "Post", "done"}
             /\ rec.lookups \in {<<>>, <<instance>>}
             /\ rec.pc = "Post" \/ rec.posts /= <<>> =>
                   rec.lookups = <<instance>>
             /\ \A p \in 1..Len(rec.posts) :
                   rec.posts[p] = [host |-> <<"host", instance>>,
                                   port |-> config.Port,
                                   body |-> rec.raw]
    /\ (config.Port /= 0
        /\ \A h \in Handlers : handlers[h].got => ForPeer(h)) =>
          /\ lifecycleActionToken = ""
          /\ autoscalingGroupName = ""
          /\ episodes = <<>>

C8_Witness ==
    \E h \in Handlers :
       /\ ForPeer(h) /\ config.Port /= 0 /\ Done(h)
       /\ handlers[h].forwards = 1
       /\ Len(handlers[h].posts) >= 1
       /\ handlers[h].result = "true"

\* C9: a message that cannot be decoded, or has another hook name than the
\* configured one, or another transition than terminating: its handling
\* starts no StartShutdown and no forward (no lookup, no delivery attempt),
\* writes nothing to the stored token and group name, does not delete the
\* message, and answers 400 when it came over HTTP.
C9_UnmatchedRejected ==
    /\ \A h \in Handlers : Unmatched(h) =>
          LET rec == handlers[h] IN
          /\ rec.pc \in {"handleMessage", "done"}
          /\ rec.starts = 0
          /\ rec.forwards = 0 /\ rec.lookups = <<>> /\ rec.posts = <<>>
          /\ rec.wrote = <<>>
          /\ rec.deletes = 0
          /\ Done(h) =>
                /\ rec.result = "false"
                /\ rec.src = "http" => rec.resp = 400
                /\ rec.src = "sqs" => rec.resp = 0
    /\ (\A h \in Handlers : handlers[h].got => Unmatched(h)) =>
          /\ lifecycleActionToken = ""
          /\ autoscalingGroupName = ""
          /\ episodes = <<>>

C9_Witness ==
    \E h \in Handlers :
       /\ Done(h) /\ handlers[h].src = "http" /\ handlers[h].resp = 400
       /\ handlers[h].raw = Doc(MyHook, Launching, OwnInstance, 1)

\* C10: a decodable terminating message with the configured hook name for
\* another instance, when the port is zero, is rejected: no forward, no host
\* lookup, no delivery attempt, no StartShutdown, no delete, and the answer
\* is 400 when it came over HTTP.
C10_PeerNoticeRejectedWithoutPort ==
    \A h \in Handlers : (ForPeer(h) /\ config.Port = 0) =>
       LET rec == handlers[h] IN
       /\ rec.pc \in {"handleMessage", "done"}
       /\ rec.forwards = 0 /\ rec.lookups = <<>> /\ rec.posts = <<>>
       /\ rec.starts = 0
       /\ rec.deletes = 0
       /\ Done(h) =>
             /\ rec.result = "false"
             /\ rec.src = "http" => rec.resp = 400
             /\ rec.src = "sqs" => rec.resp = 0

C10_Witness ==
    \E h \in Handlers :
       /\ ForPeer(h) /\ config.Port = 0 /\ Done(h)
       /\ handlers[h].src = "http" /\ handlers[h].resp = 400

\* C11: among peers on one queue, the notice addressed to the peer is
\* eventually acted on by the peer (StartShutdown is started there), also
\* when the manager receives it from the queue first.
C11_NoticeReachesItsInstance == <>(peer.starts > 0)

\* The notice is deleted from the queue and the peer never got it.
C11_NoticeLost ==
    /\ NoticeDeleted
    /\ peer.starts = 0
    /\ \A h \in Handlers : Done(h)

\* The forwards of the manager: the handlings that looked the host up and
\* made delivery attempts.
Forwarding(h) == handlers[h].host /= <<>>

\* The delivery attempts of a forward that failed.
FailedAttempts(h) ==
    Cardinality({p \in 1..Len(handlers[h].outcomes) :
                   ~handlers[h].outcomes[p]})

\* The forward is over and its last delivery attempt succeeded.
ForwardSucceeded(h) ==
    /\ Forwarding(h) /\ Done(h)
    /\ handlers[h].outcomes[Len(handlers[h].outcomes)]

\* The forward is over and its last delivery attempt failed.
ForwardFailed(h) ==
    /\ Forwarding(h) /\ Done(h)
    /\ ~handlers[h].outcomes[Len(handlers[h].outcomes)]

\* C12, as the code has it: with r the number of retries the manager works
\* with (NumForwardRetries after clean: the configured number, 10 for 0 and
\* 0 for a negative one), a forward whose target fails the first k delivery
\* attempts and then succeeds, succeeds when r >= k and no error is
\* reported; a forward fails only after r + 1 failed attempts (k > r), and
\* then exactly one error, that of the last attempt, is reported.
C12_ForwardRetries ==
    \A h \in Handlers :
       LET rec == handlers[h]
           r == config.NumForwardRetries
           k == FailedAttempts(h)
       IN /\ (Forwarding(h) /\ ~Done(h)) => (k <= r /\ rec.reported = <<>>)
          /\ ForwardSucceeded(h) =>
                /\ r >= k
                /\ rec.reported = <<>>
                /\ \A p \in 0..r : CopiesIn(Err("http.Post", h, p), handled) = 0
          /\ ForwardFailed(h) =>
                /\ k = r + 1
                /\ rec.reported = <<Err("http.Post", h, r)>>
                /\ \A p \in 0..r :
                      CopiesIn(Err("http.Post", h, p), handled) =
                         IF p = r /\ errorHandler /= NoHandler THEN 1 ELSE 0

C12_Witness ==
    \E h \in Handlers :
       /\ ForwardFailed(h)
       /\ requested = 1
       /\ FailedAttempts(h) = 2
       /\ errorHandler /= NoHandler

\* C12, as it is stated: with the configured number of retries in the place
\* of r: a forward that succeeds after k failed attempts has a configured
\* number >= k, and one that fails after k failed attempts has a configured
\* number < k.
C12_ForwardRetriesConfigured ==
    \A h \in Handlers :
       /\ ForwardSucceeded(h) => requested >= FailedAttempts(h)
       /\ ForwardFailed(h) => requested < FailedAttempts(h)

\* C13: a forward makes at most NumForwardRetries + 1 delivery attempts (the
\* number clean() left) and none after a successful one; configured with -1
\* it makes exactly one attempt, and configured with 0 it works with 10
\* retries: it gives up only after 11 failed attempts.
C13_ForwardAttempts ==
    \A h \in Handlers : Forwarding(h) =>
       LET rec == handlers[h]
           n == Len(rec.posts)
       IN /\ Len(rec.outcomes) = n
          /\ n <= config.NumForwardRetries + 1
          /\ \A p \in 1..(n - 1) : ~rec.outcomes[p]
          /\ Done(h) => n >= 1
          /\ requested = -1 => (n <= 1 /\ (Done(h) => n = 1))
          /\ requested = 0 =>
                /\ config.NumForwardRetries = 10
                /\ ForwardFailed(h) => n = 11
                /\ (~Done(h) /\ n < 11) => ENABLED ForwardPost(h, FALSE)

C13_Witness ==
    \E h \in Handlers :
       /\ requested = 0
       /\ ForwardFailed(h)
       /\ Len(handlers[h].posts) = 11

----------------------------------------------------------------------------
\* What the claims about the manager's shutdown episodes speak about.

Beaters == 1..Len(beaters)

\* The heartbeat calls of a goroutine.
Calls(b) == beaters[b].calls

\* The episode a heartbeat goroutine belongs to is over: ShutdownFinish has
\* returned.
EpisodeOver(b) == episodes[beaters[b].e].pc = "done"

\* The notice that started episode e.
Starter(e) == CHOOSE h \in Handlers : handlers[h].episode = e

\* The calls of CompleteLifecycleAction of episode e.
Completions(e) == {k \in 1..Len(completions) : completions[k].e = e}

\* The distance of two numbers.
Distance(x, y) == IF x >= y THEN x - y ELSE y - x

\* C14, as the code has it: the goroutine sends its first heartbeat without
\* waiting for a tick; and in an episode that runs alone, when no tick was
\* late (every period ended with the goroutine waiting for the tick: the
\* heartbeat calls are short against the interval), the heartbeat calls
\* number the periods that have passed (floor(D/T)) plus one, within one.
C14_HeartbeatCount ==
    \A b \in Beaters :
       /\ Calls(b) = <<>> => beaters[b].pc = "send"
       /\ ~tickers[b].late =>
             Distance(Len(Calls(b)), tickers[b].fired + 1) <= 1

C14_Witness ==
    \E b \in Beaters :
       /\ EpisodeOver(b)
       /\ ~tickers[b].late
       /\ tickers[b].fired = 2
       /\ Len(Calls(b)) = 3

\* C14, as it is stated: when the episode is over and the goroutine has
\* sent every heartbeat it will send (it waits on an empty channel), the
\* heartbeat calls number the periods that have passed plus one, within one.
C14_HeartbeatCountAlways ==
    \A b \in Beaters :
       (/\ EpisodeOver(b)
        /\ beaters[b].pc = "recv"
        /\ tickers[beaters[b].on].c = 0) =>
          Distance(Len(Calls(b)), tickers[b].fired + 1) <= 1

\* C15: no heartbeat call is started once the ticker of its episode has
\* been stopped.
C15_NoHeartbeatAfterStop ==
    \A b \in Beaters : \A k \in 1..Len(Calls(b)) : ~Calls(b)[k].stopped

\* A tick was in the channel when the ticker was stopped: the goroutine
\* receives it and sends a heartbeat after the stop.
C15_HeartbeatAfterStop ==
    \E b \in Beaters :
       /\ Len(Calls(b)) = 2
       /\ ~Calls(b)[1].stopped
       /\ Calls(b)[2].stopped
       /\ EpisodeOver(b)

\* C16: ShutdownFinish stops the ticker and then calls
\* CompleteLifecycleAction exactly once, with the group name and the token
\* of the accepted notice the manager holds; the call is not repeated when
\* it fails, and its error reaches the error handler once.
C16_ShutdownFinish ==
    \A e \in 1..Len(episodes) :
       LET ep == episodes[e]
           done == Completions(e)
       IN /\ Cardinality(done) = IF ep.pc = "done" THEN 1 ELSE 0
          /\ ep.pc \in {"CompleteLifecycleAction", "done"} =>
                tickers[ticker].stopped
          /\ ep.sfCalls = Cardinality(done)
          /\ \A k \in done :
                /\ completions[k].stopped
                /\ completions[k].group =
                      Msg(Starter(e))["AutoScalingGroupName"]
                /\ completions[k].token =
                      Msg(Starter(e))["LifecycleActionToken"]
                /\ CopiesIn(Err("ShutdownFinish", e, 0), handled) =
                      IF ~completions[k].ok /\ errorHandler /= NoHandler
                      THEN 1 ELSE 0

C16_Witness ==
    \E e \in 1..Len(episodes) :
       /\ episodes[e].pc = "done"
       /\ \E k \in Completions(e) :
             /\ ~completions[k].ok
             /\ completions[k].token = <<"token", 2>>
       /\ CopiesIn(Err("ShutdownFinish", e, 0), handled) = 1

\* C17: every heartbeat call and the completion call of an episode carry the
\* group name and the token of the notice that started the episode, whatever
\* notices arrive while the episode runs.
C17_PairOfTheEpisode ==
    /\ \A b \in Beaters : \A k \in 1..Len(Calls(b)) :
          /\ Calls(b)[k].group =
                Msg(Starter(beaters[b].e))["AutoScalingGroupName"]
          /\ Calls(b)[k].token =
                Msg(Starter(beaters[b].e))["LifecycleActionToken"]
    /\ \A k \in 1..Len(completions) :
          /\ completions[k].group =
                Msg(Starter(completions[k].e))["AutoScalingGroupName"]
          /\ completions[k].token =
                Msg(Starter(completions[k].e))["LifecycleActionToken"]

\* The episode of one notice completes the lifecycle action of another.
C17_PairOverwritten ==
    \E k \in 1..Len(completions) :
       /\ completions[k].e = 1
       /\ Msg(Starter(1))["LifecycleActionToken"] = <<"token", 1>>
       /\ completions[k].token = <<"token", 2>>

\* An episode is active from its call of ShutdownStart to the return of its
\* call of ShutdownFinish.
Active(e) ==
    /\ episodes[e].ssCalls > 0
    /\ episodes[e].pc /= "done"

\* C18: at most one shutdown episode is active.
C18_OneActiveEpisode ==
    Cardinality({e \in 1..Len(episodes) : Active(e)}) <= 1

C18_TwoActiveEpisodes ==
    /\ Len(episodes) >= 2
    /\ Active(1) /\ Active(2)
    /\ \E g \in Goroutines(1) : episodes[1].gor[g].st = "running"
    /\ \E g \in Goroutines(2) : episodes[2].gor[g].st = "running"

\* C19: a callback launched by StartShutdown(sm) is invoked with the name of
\* sm, the manager that triggered the episode, and of no other manager.
C19_CallbackGetsTriggeringManager ==
    \A e \in Eps : \A g \in Goroutines(e) :
       /\ episodes[e].gor[g].arg = <<"manager", episodes[e].sm>>
       /\ \A m \in 1..Len(managers) :
             m /= episodes[e].sm => episodes[e].gor[g].arg /= <<"manager", m>>

C19_Witness ==
    \E e \in Eps :
       /\ Len(managers) = 2
       /\ episodes[e].sm = 2
       /\ \E g \in Goroutines(e) : episodes[e].gor[g].arg = <<"manager", 2>>

\* C20: while a callback launched by an episode has not returned, the ticker
\* the manager holds, and the ticker of the episode, are not stopped.
C20_TickerRunsWhileCallbacksRun ==
    \A b \in Beaters :
       (\E g \in Goroutines(beaters[b].e) :
           episodes[beaters[b].e].gor[g].st = "running") =>
          /\ ticker /= 0
          /\ ~tickers[ticker].stopped
          /\ ~tickers[b].stopped

\* The first episode stops the ticker of the second one, whose callback
\* still runs.
C20_StoppedUnderRunningCallback ==
    \E b \in Beaters :
       /\ beaters[b].e = 2
       /\ \E g \in Goroutines(2) : episodes[2].gor[g].st = "running"
       /\ tickers[b].stopped
       /\ episodes[1].pc = "done"

----------------------------------------------------------------------------
\* What the claims about failures speak about.

AllReturned(e) == \A g \in Goroutines(e) : GoroutineReturned(e, g)

\* C21: when the triggering manager's ShutdownStart returns an error, the
\* error reaches the error handler exactly once, and the episode goes on as
\* it does otherwise: every registered callback is launched, and
\* ShutdownFinish is called, once, after all of them have returned.
C21_ShutdownStartErrorNotFatal ==
    \A e \in Eps :
       LET ep == episodes[e] IN
       /\ CopiesIn(Err("ShutdownStart", e, 0), handled) =
             IF ep.ssErr /\ errorHandler /= NoHandler THEN 1 ELSE 0
       /\ ep.ssErr =>
             /\ ep.ssCalls = 1
             /\ ep.pc \in {"launch", "wait", "done"}
             /\ ep.n = Len(callbacks)
             /\ ep.pc = "launch" => ENABLED EpLaunch(e)
             /\ ep.pc \in {"wait", "done"} => Len(ep.gor) = Len(callbacks)
             /\ (ep.pc = "wait" /\ AllReturned(e)) =>
                   ENABLED (\E ok \in BOOLEAN : EpShutdownFinish(e, ok))
             /\ ep.sfCalls = IF ep.pc = "done" THEN 1 ELSE 0
             /\ ep.pc = "done" => AllReturned(e)

C21_Witness ==
    \E e \in Eps :
       /\ episodes[e].ssErr
       /\ episodes[e].pc = "done"
       /\ episodes[e].sfCalls = 1
       /\ Len(episodes[e].gor) = 2
       /\ CopiesIn(Err("ShutdownStart", e, 0), handled) = 1

\* The message was forwarded: handleMessage called forwardMessage for it.
Forwarded(h) == handlers[h].forwards > 0

\* The host lookup of the forward failed.
LookupFailed(h) ==
    /\ Forwarded(h) /\ Done(h)
    /\ handlers[h].host = <<>>

\* C22: a message that was forwarded is, once the forward is over, deleted
\* from the queue (once) when it came from the queue and answered with 200
\* when it came over HTTP, and neither before; whether the forward succeeded,
\* the host lookup failed or every delivery attempt failed.
C22_ForwardedIsHandedOff ==
    \A h \in Handlers : Forwarded(h) =>
       LET rec == handlers[h] IN
       /\ ~Done(h) => (rec.deletes = 0 /\ rec.resp = 0)
       /\ Done(h) =>
             /\ LookupFailed(h) \/ ForwardFailed(h) \/ ForwardSucceeded(h)
             /\ rec.result = "true"
             /\ rec.src = "sqs" => (rec.deletes = 1 /\ rec.resp = 0)
             /\ rec.src = "http" => (rec.deletes = 0 /\ rec.resp = 200)

C22_Witness ==
    \E h \in Handlers :
       /\ LookupFailed(h)
       /\ handlers[h].src = "sqs"
       /\ handlers[h].deletes = 1

\* The episode started by the handling of a notice has a callback that has
\* not returned.
CallbacksRunning(h) ==
    /\ handlers[h].episode \in Eps
    /\ \E g \in Goroutines(handlers[h].episode) :
          episodes[handlers[h].episode].gor[g].st = "running"

\* C23: the handling of a notice for the own instance does not wait for the
\* episode it starts: it returns true and the queue message is deleted
\* whatever the episode is doing, and whatever the episodes are doing the
\* queue loop, once it is done with a message, can receive the next one and
\* the HTTP handler can take a request.
C23_AcceptDoesNotWait ==
    /\ \A h \in Handlers : ForOwn(h) =>
          /\ handlers[h].pc = "storeGroup" => ENABLED HandleAccepted(h)
          /\ Done(h) =>
                /\ handlers[h].result = "true"
                /\ handlers[h].src = "sqs" => handlers[h].deletes = 1
                /\ handlers[h].episode \in Eps
    /\ (\A h \in Handlers : handlers[h].src = "sqs" => Done(h)) =>
          ENABLED SqsReceive(NotJson)
    /\ listener.serving => ENABLED HttpRequest(NotJson, TRUE)

\* The notice was accepted and deleted, its episode's callback still runs,
\* and the queue loop has received and handled another message since.
C23_Witness ==
    \E h, k \in Handlers :
       /\ h < k
       /\ ForOwn(h) /\ Done(h) /\ handlers[h].deletes = 1
       /\ CallbacksRunning(h)
       /\ handlers[k].src = "sqs" /\ Done(k)

\* A callback launched by the episode of a heartbeat goroutine has not
\* returned.
CallbackPending(b) ==
    \E g \in Goroutines(beaters[b].e) :
       episodes[beaters[b].e].gor[g].st = "running"

\* C24: nothing but the callbacks' return ends the wait: as long as a
\* callback of the episode has not returned, StartShutdown has not returned,
\* ShutdownFinish was not called (no completion call, the ticker is not
\* stopped), and the heartbeat loop goes on: the ticker keeps ticking, the
\* goroutine waits on it or is about to send, a tick makes it send again.
C24_HungCallbackHoldsEpisode ==
    \A b \in Beaters : CallbackPending(b) =>
       LET e == beaters[b].e IN
       /\ episodes[e].pc \in {"launch", "wait"}
       /\ episodes[e].sfCalls = 0
       /\ Completions(e) = {}
       /\ ~ENABLED AwsTickerStop(e)
       /\ ~tickers[b].stopped
       /\ tickers[b].fired < MaxTicks => ENABLED TickerFire(b)
       /\ beaters[b].pc = "send" =>
             ENABLED (\E ok \in BOOLEAN : HeartbeatSend(b, ok))
       /\ beaters[b].pc = "recv" =>
             /\ beaters[b].on = b
             /\ tickers[b].c = 1 => ENABLED HeartbeatTick(b)

\* A callback has not returned for three periods: four heartbeats were
\* sent and the episode still waits.
C24_Witness ==
    \E b \in Beaters :
       /\ CallbackPending(b)
       /\ episodes[beaters[b].e].pc = "wait"
       /\ tickers[b].fired = 3
       /\ Len(Calls(b)) = 4

\* C25: a forward makes one host lookup; when it fails the forward is over:
\* no delivery attempt was or will be made, the lookup is not repeated, and
\* exactly one error, that of the lookup, is reported (to the handler, once,
\* when one is set).
C25_LookupFailureAborts ==
    \A h \in Handlers :
       /\ Len(handlers[h].lookups) <= 1
       /\ LookupFailed(h) =>
             /\ handlers[h].posts = <<>>
             /\ handlers[h].outcomes = <<>>
             /\ Len(handlers[h].lookups) = 1
             /\ ~ENABLED (\E ok \in BOOLEAN : ForwardGetHost(h, ok))
             /\ ~ENABLED (\E ok \in BOOLEAN : ForwardPost(h, ok))
             /\ handlers[h].reported = <<Err("GetHost", h, 0)>>
             /\ CopiesIn(Err("GetHost", h, 0), handled) =
                   IF errorHandler /= NoHandler THEN 1 ELSE 0
             /\ \A p \in 0..config.NumForwardRetries :
                   CopiesIn(Err("http.Post", h, p), handled) = 0

C25_Witness ==
    \E h \in Handlers :
       /\ LookupFailed(h)
       /\ handlers[h].src = "http"
       /\ handlers[h].resp = 200
       /\ handled = SetToBag({Err("GetHost", h, 0)})

\* C26: every heartbeat call that fails reaches the error handler exactly
\* once (when one is set) and a call that succeeds not at all; after a call,
\* failed or not, the goroutine waits for the next tick, and the tick makes
\* it send the next heartbeat: the loop never ends.
C26_HeartbeatErrorsReported ==
    \A b \in Beaters :
       /\ \A k \in 1..Len(Calls(b)) :
             CopiesIn(Err("SendHeartbeat", b, k - 1), handled) =
                IF ~Calls(b)[k].ok /\ errorHandler /= NoHandler
                THEN 1 ELSE 0
       /\ beaters[b].pc \in {"send", "recv"}
       /\ beaters[b].pc = "send" =>
             ENABLED (\E ok \in BOOLEAN : HeartbeatSend(b, ok))
       /\ beaters[b].pc = "recv" =>
             /\ Calls(b) /= <<>>
             /\ tickers[beaters[b].on].c = 1 => ENABLED HeartbeatTick(b)

\* The first heartbeat failed and was reported, the second was sent at the
\* next tick.
C26_Witness ==
    \E b \in Beaters :
       /\ Len(Calls(b)) = 2
       /\ ~Calls(b)[1].ok
       /\ Calls(b)[2].ok
       /\ tickers[b].fired = 1
       /\ CopiesIn(Err("SendHeartbeat", b, 0), handled) = 1
       /\ CallbackPending(b)

\* The invocations of the manager's own OnShutdown.
OwnCallbackRuns ==
    {eg \in Eps \X (1..MaxCallbacks) :
       /\ eg[2] \in Goroutines(eg[1])
       /\ episodes[eg[1]].gor[eg[2]].cb = AwsCallback}

\* C27: after a Start that succeeded, with a port or without one, no
\* invocation of the manager's own OnShutdown faults: it runs or has
\* returned.
C27_OnShutdownReturns ==
    \A eg \in OwnCallbackRuns :
       episodes[eg[1]].gor[eg[2]].st \in {"running", "returned"}

\* Without a port no listener was made, and OnShutdown has panicked on it.
C27_NilListenerClosed ==
    /\ config.Port = 0
    /\ listener = NoListener
    /\ \E eg \in OwnCallbackRuns :
          episodes[eg[1]].gor[eg[2]].st = "panicked"

\* C28: with a port, Close is called on the manager's listener at most
\* once, and exactly once when an episode is over, whatever notices
\* trigger shutdowns.
C28_ListenerClosedOnce ==
    /\ listener.closes <= 1
    /\ (\E e \in Eps : episodes[e].pc = "done") => listener.closes = 1

\* Two notices, two episodes: each has invoked the manager's OnShutdown.
C28_ClosedTwice ==
    /\ config.Port /= 0
    /\ Len(episodes) = 2
    /\ listener.closes = 2

\* C29: with an error handler set, the error of a delete that failed, of an
\* accepted or of a forwarded queue message, reaches the handler once.
C29_DeleteErrorReported ==
    \A h \in Handlers :
       (handlers[h].deleted = "error" /\ errorHandler /= NoHandler) =>
          CopiesIn(Err("DeleteMessage", h, 0), handled) = 1

\* The delete of an accepted notice failed and the handler heard nothing.
C29_DeleteErrorDropped ==
    \E h \in Handlers :
       /\ ForOwn(h)
       /\ handlers[h].deleted = "error"
       /\ errorHandler /= NoHandler
       /\ handled = EmptyBag

\* The errors a call of the manager's Start can return.
AwsStartErrors ==
    {Err("GetMetadata", 1, 0), Err("GetMetadata", 2, 0), Err("Init", 0, 0)}
    \cup {Err("net.Listen", i, 0) : i \in 0..defaultServeRetries}

\* C30: when the manager's Start has returned an error (of the metadata, of
\* api.Init or of the last net.Listen), the orchestrator's Start has
\* returned that same error, and the manager has left nothing behind: it
\* polls no queue, serves no port, holds no listener and is no registered
\* callback; and as long as its Start has not returned nil it polls no
\* queue and is no registered callback.
C30_FailedStartLeavesNothing ==
    /\ (awsStart.pc = "returned" /\ awsStart.result /= NoError) =>
          /\ awsStart.result \in AwsStartErrors
          /\ gsPc = "returned"
          /\ startResult = awsStart.result
          /\ startCalls = <<1>>
          /\ ~awsStart.polling
          /\ ~awsStart.registered
          /\ ~listener.serving
          /\ ~listener.bound
          /\ Len(callbacks) <= 1
    /\ ~(awsStart.pc = "returned" /\ awsStart.result = NoError) =>
          (~awsStart.polling /\ ~awsStart.registered)
    /\ (gsPc = "returned" /\ startResult /= NoError) =>
          awsStart.result = startResult

\* Every net.Listen failed: Start gave up after the default three retries.
C30_Witness ==
    /\ awsStart.pc = "returned"
    /\ awsStart.result = Err("net.Listen", 3, 0)
    /\ awsStart.i = 4
    /\ config.SqsQueueName /= ""
    /\ gsPc = "returned"
    /\ startResult = Err("net.Listen", 3, 0)

\* The calls of net.Listen that failed.
FailedListens == IF listener.bound THEN awsStart.i - 1 ELSE awsStart.i

\* C31: Start calls net.Listen at most NumServeRetries + 1 times and only
\* with a port; it has slept for backOffDuration(k) after the k-th failed
\* call, for every failed call; after a call that succeeded it makes no
\* further one; and it returns a bind error only after NumServeRetries + 1
\* calls failed: the error is that of the last call, nothing serves.
C31_BindAttempts ==
    /\ awsStart.i <= config.NumServeRetries + 1
    /\ config.Port = 0 => awsStart.i = 0
    /\ awsStart.sleeps = [k \in 1..FailedListens |-> k - 1]
    /\ listener.bound =>
          /\ listener.serving
          /\ awsStart.pc \in {"register", "returned"}
          /\ ~ENABLED (\E ok \in BOOLEAN : AwsListenHTTP(ok))
    /\ (awsStart.pc = "listenHTTP" /\ ~listener.bound) =>
          awsStart.i < config.NumServeRetries + 1
    /\ (awsStart.pc = "returned" /\ awsStart.result.src = "net.Listen") =>
          /\ awsStart.i = config.NumServeRetries + 1
          /\ FailedListens = awsStart.i
          /\ awsStart.result = Err("net.Listen", awsStart.i - 1, 0)
          /\ startResult = awsStart.result
          /\ ~listener.serving
    /\ (awsStart.pc = "returned" /\ awsStart.result = NoError
          /\ config.Port /= 0) => listener.serving

\* The third call of net.Listen succeeded, after two sleeps.
C31_Witness ==
    /\ awsStart.pc = "returned"
    /\ awsStart.result = NoError
    /\ awsStart.i = 3
    /\ awsStart.sleeps = <<0, 1>>
    /\ listener.serving

\* A round of the queue loop is over: handleMessage has returned and the
\* call of DeleteMessage, if one was made, has returned too.
RoundOver(h) ==
    /\ handlers[h].pc = "done"
    /\ handlers[h].deletes > 0 => handlers[h].deleted /= "none"

Rounds == {h \in Handlers : handlers[h].src = "sqs"}

\* The forward of round h is over: the lookup failed, or a delivery attempt
\* succeeded, or NumForwardRetries + 1 attempts failed.
ForwardOver(h) ==
    LET rec == handlers[h] IN
    \/ rec.host = <<>> /\ rec.reported = <<GetHostError(h)>>
    \/ rec.outcomes /= <<>> /\ rec.outcomes[Len(rec.outcomes)]
    \/ FailedAttempts(h) = config.NumForwardRetries + 1

\* C33: the rounds of the queue loop follow one another: while a round is
\* not over (handleMessage has not returned, or DeleteMessage has not) it
\* is the last round, so no two are under way at once; and DeleteMessage is
\* called only after handleMessage has returned true, which for a forwarded
\* notice is after the whole forward, retries included.
C33_OneRoundAtATime ==
    /\ \A h, k \in Rounds : h < k => RoundOver(h)
    /\ Cardinality({h \in Rounds : ~RoundOver(h)}) <= 1
    /\ \A h \in Rounds :
          /\ handlers[h].deletes <= 1
          /\ handlers[h].deletes = 1 =>
                /\ handlers[h].pc = "done"
                /\ handlers[h].result = "true"
                /\ Forwarded(h) => ForwardOver(h)
          /\ (Forwarded(h) /\ ~ForwardOver(h)) =>
                handlers[h].pc \in {"GetHost", "Post"}

\* The first round forwarded its notice at the second attempt and deleted
\* it; the second round is under way.
C33_Witness ==
    \E h, k \in Rounds :
       /\ h < k
       /\ handlers[h].outcomes = <<FALSE, TRUE>>
       /\ handlers[h].deleted /= "none"
       /\ handlers[k].pc = "GetHost"

\* C34: a delivery attempt the peer has answered, with 200 or with 400, is
\* the last one of its forward: http.Post returned no error, the forward
\* made no further attempt, nothing was reported for the forward,
\* handleMessage returned true and the queue loop called DeleteMessage.
C34_StatusNotInspected ==
    \A h \in Handlers :
       \A a \in 1..Len(handlers[h].outcomes) :
          Served(h, a) =>
             /\ handlers[h].outcomes[a]
             /\ a = Len(handlers[h].outcomes)
             /\ handlers[h].pc = "done"
             /\ handlers[h].result = "true"
             /\ handlers[h].reported = <<>>
             /\ handlers[h].deletes = 1
             /\ \A p \in 0..config.NumForwardRetries :
                   CopiesIn(Err("http.Post", h, p), handled) = 0

\* The peer answered the second attempt with 400; the forward ended there
\* and the notice was deleted from the queue.
C34_Witness ==
    \E h \in Handlers :
       /\ handlers[h].outcomes = <<FALSE, TRUE>>
       /\ Served(h, 2)
       /\ StatusOf(h, 2) = 400
       /\ peer.starts = 0
       /\ handlers[h].deleted = "nil"
       /\ errorHandler /= NoHandler
       /\ handled = EmptyBag

\* A decodable message that names the manager's own instance.
NamesOwn(h) ==
    /\ handlers[h].got
    /\ Decode(handlers[h].raw).ok
    /\ Msg(h)["EC2InstanceId"] = config.InstanceId

\* C35: for a message that names the manager's own instance, with a port
\* or without, no host is looked up and nothing is posted; and when its
\* hook name is not the configured one or its transition is not the
\* terminating one, handleMessage returns false: no token is stored, no
\* shutdown is started and the message is not deleted.
C35_OwnNeverForwarded ==
    /\ \A h \in Handlers :
          NamesOwn(h) =>
             /\ handlers[h].forwards = 0
             /\ handlers[h].lookups = <<>>
             /\ handlers[h].posts = <<>>
             /\ handlers[h].pc \notin {"GetHost", "Post"}
             /\ ~Matching(h) =>
                   /\ handlers[h].starts = 0
                   /\ handlers[h].episode = 0
                   /\ handlers[h].wrote = <<>>
                   /\ handlers[h].deletes = 0
                   /\ handlers[h].pc = "done" =>
                         /\ handlers[h].result = "false"
                         /\ handlers[h].src = "http" =>
                               handlers[h].resp = 400
    /\ Len(episodes) = Cardinality({h \in Handlers : handlers[h].starts > 0})

\* A notice for the own instance with the terminating transition and
\* another hook name came from the queue of a manager that forwards, and
\* was rejected.
C35_Witness ==
    \E h \in Handlers :
       /\ handlers[h].raw = Doc(OtherHook, Terminating, OwnInstance, 1)
       /\ handlers[h].src = "sqs"
       /\ config.Port /= 0
       /\ handlers[h].pc = "done"
       /\ handlers[h].result = "false"

\* The episodes the AwsManager started whose ShutdownStart was called.
AwsEpisodesStarted ==
    {e \in Eps : episodes[e].sm = AwsManagerId /\ episodes[e].ssCalls = 1}

\* C36: every ticker, every heartbeat goroutine and every call of
\* CompleteLifecycleAction belongs to an episode the AwsManager started,
\* one ticker and one goroutine for each such episode: an episode another
\* manager started calls that manager's ShutdownStart and ShutdownFinish
\* once each and nothing of the AwsManager's; and when it has returned,
\* every registered callback, the AwsManager's included, was invoked once
\* with the name of the manager that started it and has returned.
C36_OnlyTriggeringManager ==
    /\ \A b \in Beaters : episodes[beaters[b].e].sm = AwsManagerId
    /\ \A k \in 1..Len(completions) :
          episodes[completions[k].e].sm = AwsManagerId
    /\ Len(beaters) = Cardinality(AwsEpisodesStarted)
    /\ Len(tickers) = Cardinality(AwsEpisodesStarted)
    /\ AwsEpisodesStarted = {} => ticker = 0
    /\ \A e \in Eps :
          /\ episodes[e].ssCalls <= 1
          /\ episodes[e].sfCalls <= 1
          /\ episodes[e].sm /= AwsManagerId => Completions(e) = {}
          /\ episodes[e].pc = "done" =>
                /\ episodes[e].ssCalls = 1
                /\ episodes[e].sfCalls = 1
                /\ \A c \in 1..Len(callbacks) :
                      /\ Cardinality(Invocations(e, c)) = 1
                      /\ \A g \in Invocations(e, c) :
                            /\ GoroutineReturned(e, g)
                            /\ episodes[e].gor[g].arg
                                  = <<"manager", episodes[e].sm>>

\* The other manager's episode has returned: both callbacks ran, the
\* AwsManager closed its listener, sent no heartbeat and completed nothing.
C36_Witness ==
    /\ Len(episodes) = 1
    /\ episodes[1].sm = 2
    /\ episodes[1].pc = "done"
    /\ Len(episodes[1].gor) = 2
    /\ listener.closes = 1
    /\ beaters = <<>>
    /\ completions = <<>>
    /\ tickers = <<>>

\* The invocations of the error handler that have not returned: those of
\* the callbacks' goroutines and those of the heartbeat goroutines.
OnErrorRunning ==
    UNION {{<<"OnShutdown", e, g>> :
              g \in {x \in Goroutines(e) :
                       episodes[e].gor[x].st = "reporting"}} : e \in Eps}
    \cup {<<"SendHeartbeat", b, 0>> :
            b \in {x \in Beaters : beaters[x].pc = "reporting"}}

\* C37: with a handler set, nothing holds an invocation of the handler
\* back: a callback's goroutine whose callback fails can invoke it, and so
\* can a heartbeat goroutine whose SendHeartbeat fails, however many
\* invocations have not returned yet.
C37_HandlerNotSerialized ==
    errorHandler /= NoHandler =>
       /\ \A e \in Eps : \A g \in Goroutines(e) :
             (/\ episodes[e].gor[g].st = "running"
              /\ episodes[e].gor[g].cb /= AwsCallback) =>
                ENABLED CallbackOnError(e, g)
       /\ \A b \in Beaters :
             beaters[b].pc = "send" => ENABLED HeartbeatOnError(b)
       /\ BagCardinality(handled) >= Cardinality(OnErrorRunning)

\* The handler runs for the errors of two callbacks and for a heartbeat
\* error at the same time.
C37_Witness ==
    /\ Cardinality(OnErrorRunning) = 3
    /\ \E e \in Eps : \E g, o \in Goroutines(e) :
          /\ g /= o
          /\ episodes[e].gor[g].st = "reporting"
          /\ episodes[e].gor[o].st = "reporting"
          /\ episodes[e].gor[g].cb /= episodes[e].gor[o].cb
    /\ \E b \in Beaters : beaters[b].pc = "reporting"

\* The heartbeat goroutine waits on the empty channel of a stopped ticker.
Blocked(b) ==
    /\ beaters[b].pc = "recv"
    /\ tickers[beaters[b].on].stopped
    /\ tickers[beaters[b].on].c = 0

AllStopped == \A t \in 1..Len(tickers) : tickers[t].stopped

ShutdownStartCalls ==
    Cardinality({e \in Eps : episodes[e].ssCalls = 1})

\* C38: a heartbeat goroutine is only ever sending or waiting, it never
\* ends; there is one for each call of ShutdownStart, each call adding
\* one; a goroutine that goes to wait waits on the ticker the manager holds
\* at that moment; one that waits on the empty channel of a stopped ticker
\* can take no step and stays so for ever; and once every ticker is
\* stopped every goroutine comes to that state unless a new ticker is
\* made.
C38_WorkersNeverEnd ==
    /\ [](/\ \A b \in Beaters : beaters[b].pc \in {"send", "recv"}
          /\ Len(beaters) = ShutdownStartCalls
          /\ \A b \in Beaters :
                Blocked(b) => ~ENABLED HeartbeatTick(b))
    /\ [][/\ Len(beaters') >= Len(beaters)
          /\ \A b \in Beaters :
                /\ Blocked(b) =>
                      /\ beaters'[b] = beaters[b]
                      /\ tickers'[beaters[b].on] = tickers[beaters[b].on]
                /\ (beaters[b].pc = "send" /\ beaters'[b].pc = "recv") =>
                      beaters'[b].on = ticker]_vars
    /\ (Len(beaters) >= 1 /\ AllStopped)
          ~> ((\A b \in Beaters : Blocked(b)) \/ ~AllStopped)

\* Two episodes have returned; the goroutine of each waits on the stopped
\* ticker of its episode.
C38_Witness ==
    /\ Len(beaters) = 2
    /\ \A e \in Eps : episodes[e].pc = "done"
    /\ Blocked(1)
    /\ Blocked(2)
    /\ beaters[1].on = 1
    /\ beaters[2].on = 2
    /\ Len(beaters[1].calls) >= 2

\* C39: when GetHost gives for an instance id the instance configured with
\* that id, a notice forwarded over HTTP is accepted where it arrives and is
\* not forwarded from there: the peer that serves a request of the manager
\* never forwards its notice and accepts it when it could read the body, and
\* the manager does the same with a request the peer forwarded to it.
ForwardedToPeer == 1..Len(peer.served)
ForwardedToManager == {h \in Handlers : handlers[h].src = "http"}

C39_OneHop ==
    /\ \A k \in ForwardedToPeer :
          /\ peer.served[k].route /= "forward"
          /\ peer.served[k].status = StatusOK =>
                peer.served[k].route = "accept"
          /\ Decode(peer.served[k].body).msg["EC2InstanceId"] = PeerInstance
    /\ \A h \in ForwardedToManager :
          /\ handlers[h].forwards = 0
          /\ handlers[h].lookups = <<>>
          /\ handlers[h].posts = <<>>
          /\ handlers[h].pc = "done" /\ handlers[h].got =>
                handlers[h].result = "true" /\ handlers[h].starts = 1

\* Both hops happened: the peer accepted the notice the manager forwarded
\* and the manager accepted the notice the peer forwarded.
C39_Witness ==
    /\ \E k \in ForwardedToPeer :
          /\ peer.served[k].route = "accept"
          /\ handlers[peer.served[k].h].forwards = 1
    /\ peer.starts = 1
    /\ \E h \in ForwardedToManager :
          /\ handlers[h].pc = "done"
          /\ handlers[h].starts = 1
          /\ handlers[h].resp = StatusOK

\* The metadata lookups Start makes for the configuration it was given: one
\* for the zone when no region is given, then one for the instance id when
\* none is given.
LookupsDue ==
    (IF awsStart.given.Region = <<>> THEN <<ZoneResource>> ELSE <<>>)
    \o (IF awsStart.given.InstanceId = "" THEN <<InstanceIdResource>>
        ELSE <<>>)

StartReturnedNil == awsStart.pc = "returned" /\ awsStart.result = NoError

\* C40: Start honours the switches of the configuration. Without a queue
\* name no polling loop is ever started, with one it is started when Start
\* returns nil. Without a port net.Listen is never called, no listener is
\* held and handleMessage forwards no message. A region or an instance id
\* the configuration gives is never changed and is not looked up in the
\* metadata; one it leaves out is looked up once, and once Start has
\* returned nil the region is the zone without its last character and the
\* instance id is the value of the metadata.
C40_StartHonoursSwitches ==
    /\ config.SqsQueueName = "" => ~awsStart.polling
    /\ StartReturnedNil => (awsStart.polling <=> config.SqsQueueName /= "")
    /\ config.Port = 0 =>
          /\ awsStart.i = 0
          /\ listener = NoListener
          /\ \A raw \in RawMessages : Route(config, raw) /= "forward"
    /\ (StartReturnedNil /\ config.Port /= 0) => listener.serving
    /\ awsStart.given.Region /= <<>> =>
          config.Region = awsStart.given.Region
    /\ awsStart.given.InstanceId /= "" =>
          config.InstanceId = awsStart.given.InstanceId
    /\ \E n \in 0..Len(LookupsDue) :
          awsStart.metadata = SubSeq(LookupsDue, 1, n)
    /\ StartReturnedNil =>
          /\ awsStart.metadata = LookupsDue
          /\ awsStart.given.Region = <<>> =>
                /\ Len(config.Region) = Len(Zone) - 1
                /\ \A k \in 1..Len(Zone) - 1 : config.Region[k] = Zone[k]
          /\ awsStart.given.InstanceId = "" =>
                config.InstanceId = MetadataInstanceId

\* Start returned nil for a configuration that gives a region and no
\* instance id, no port and no queue name: one lookup, nothing listens and
\* nothing polls.
C40_Witness ==
    /\ StartReturnedNil
    /\ awsStart.given = [Region |-> GivenRegion, InstanceId |-> ""]
    /\ config.Region = GivenRegion
    /\ config.InstanceId = MetadataInstanceId
    /\ awsStart.metadata = <<InstanceIdResource>>
    /\ config.Port = 0
    /\ config.SqsQueueName = ""
    /\ ~awsStart.polling
    /\ awsStart.registered

============================================================================
